---- MODULE Spec2Model ----
(***************************************************************************)
(* Session registry and login throttle of pkg/auth (auth.go).              *)
(*                                                                         *)
(* Request goroutines (Procs) run Login, AlreadyLoggedIn and Logout; each  *)
(* Logout may spawn a Clean goroutine (Cleaners).  Time is in seconds.     *)
(* A critical section (s.Lock() ... s.Unlock()) is two steps: the          *)
(* acquisition and the body with the release, so that the states in which  *)
(* the lock is held are visible.  Clean takes no lock; each iteration of   *)
(* its range loop is two steps (the range yields a key and a copy of the   *)
(* value; the age test and the delete), which is where other goroutines    *)
(* interleave.                                                             *)
(*                                                                         *)
(* Data races.  Login reads s.delay and Logout reads s.cleaned without the *)
(* lock, and Clean reads and writes s.store and writes s.cleaned without   *)
(* it.  The outcomes of such an access are: the value before or after the  *)
(* racing write (the interleaving of the steps gives both), or, for the    *)
(* maps, the runtime's "concurrent map ..." fatal error, which ends the    *)
(* process (variable fatal).                                               *)
(*                                                                         *)
(* Spec runs every operation.  SpecThrottle runs Login alone: the other    *)
(* operations never read or write s.tries or s.delay.  SpecSession runs    *)
(* every operation with Logins that pass verification: a failed Login      *)
(* never reads or writes s.store or s.cleaned.                             *)
(*                                                                         *)
(* The user handlers (Users.Delete and Users.Update of the rest handlers,  *)
(* Handler.Delete of pkg/user) work on the users and carts tables and call *)
(* s.Logout.  A handler is one step up to that call: its collaborators     *)
(* (the tables, the email lists) are not shared memory of the process.     *)
(* SpecUsers runs the handlers, and SpecPair Login and Logout, with both   *)
(* accounts registered and within 30 seconds of the construction.          *)
(*                                                                         *)
(* The cart handlers (CartAdd ... CartSize of the rest handlers) share one *)
(* shopping.Cart.  Its methods follow the contract of the cart aggregate:  *)
(* each runs under the cart's lock, and a mutation is two writes (the      *)
(* entry and the aggregates), so that the states between them are visible  *)
(* to a handler that encodes the cart without the lock.  SpecCart runs the *)
(* cart handlers.                                                          *)
(*                                                                         *)
(* SpecSweep is SpecSession under weak fairness of the clock, of the       *)
(* started Clean goroutines and of the started calls; no request is ever   *)
(* required to arrive.  SpecCache runs GetByID, Update and Delete of       *)
(* pkg/user with the handler's cache (h.Cache), which is lost, like the    *)
(* registry, when the process ends.                                        *)
(***************************************************************************)
EXTENDS Integers, FiniteSets, Sequences, TLC

\* ---- bounds ----
NumProcs == 2
NumTokens == 2
MaxCleaners == 2
MaxCalls == 3
Horizon == 2

\* ---- program constants ----
SessionMaxIdle == 432000
SweepInterval == 30
DelayUnit == 2

Procs == 1..NumProcs
Cleaners == 1..MaxCleaners
TokenPool == <<"s1", "s2", "s3", "s4">>
Tokens == {TokenPool[i] : i \in 1..NumTokens}
Emails == {"a@x.com", "b@x.com"}
\* the users table: ids, and the row of each (email, cart_id, username)
UserIDs == {"u1", "u2"}
UserRow == [u1 |-> [email |-> "a@x.com", cart |-> "c1", name |-> "n0"],
            u2 |-> [email |-> "b@x.com", cart |-> "c2", name |-> "n0"]]
CartIDs == {"c1", "c2"}
\* the instants at which the clock is observed
Times == (0..Horizon) \cup {SweepInterval + 1, SessionMaxIdle, SessionMaxIdle + 1}

VARIABLES
    now,       \* time.Now(), seconds
    store,     \* s.store: token -> [email, lastSeen]
    cleaned,   \* s.cleaned
    tries,     \* s.tries: email -> len of the slice
    delay,     \* s.delay: email -> time
    lock,      \* holder of s.Lock(), 0 when free
    pc,        \* position of each request goroutine
    arg,       \* its email (Login) or cookie value (AlreadyLoggedIn, Logout) while it runs
    err,       \* Login: what failed in its verification (the err of line 100 or 105)
    user,      \* AlreadyLoggedIn: the email of its copy of the entry (user, ok := s.store[...])
    resp,      \* the last response: [op, arg, ret] of the call that returned last
    cl,        \* the Clean goroutines
    used,      \* session tokens handed out so far
    calls,     \* requests received so far
    fatal,     \* the runtime ended the process (concurrent map access)
    users,     \* the users table: id -> [email, cart, name]
    carts,     \* the carts table: the ids of the carts that exist
    req,       \* the user handler a goroutine is running: [op, id, uid, sid], NoReq if none
    cache,     \* h.Cache of the user handlers: id -> the user GetByID stored
    cart,      \* the shopping cart the cart handlers share: items, counter and aggregates
    cartLock,  \* holder of the cart's lock, 0 when free
    creq,      \* the cart handlers that are running: goroutine -> its product, quantity and key
    out,       \* the last response of a cart handler: [op, status, body]
    nfail,     \* history: runs of loginDelay per email since its last successful Login
    lastFail,  \* history: time of the last run of loginDelay per email
    vfail,     \* history: failed verifications per email while it never logged in
    succ,      \* history: the email has logged in successfully
    cause,     \* history: what failed in the Login that returned last, "" if nothing
    lapsed     \* history: tokens whose entry has been idle for more than 120 hours

sessVars == <<now, store, cleaned, tries, delay, lock, pc, arg, err, user, resp, cl, used, calls, fatal>>
handVars == <<users, carts, req, cache>>
histVars == <<nfail, lastFail, vfail, succ, cause, lapsed>>
cartVars == <<cart, cartLock, creq, out>>
vars == <<sessVars, handVars, histVars, cartVars>>

\* the emails for which the SELECT of Login returns a row
Registered == {users[i].email : i \in DOMAIN users}

\* ---- Go maps as functions ----
EmptyMap == [x \in {} |-> 0]
MapPut(m, k, v) == [x \in (DOMAIN m) \cup {k} |-> IF x = k THEN v ELSE m[x]]
MapDelete(m, k) == [x \in (DOMAIN m) \ {k} |-> m[x]]
\* len(s.tries[email]): a missing key is the nil slice
TriesLen(tr, e) == IF e \in DOMAIN tr THEN tr[e] ELSE 0

\* a response: of which operation, for which argument, what; by is the UID cookie
\* of the request when the operation is a user handler
\* var user model.User: the zero value
ZeroUser == [email |-> "", cart |-> "", name |-> ""]
\* body is the user a GetByID answers with, the zero value in every other response
NoResp == [op |-> "", arg |-> "", ret |-> "", by |-> "", body |-> ZeroUser]
Resp(o, a, r) == [op |-> o, arg |-> a, ret |-> r, by |-> "", body |-> ZeroUser]
Responds(o, i, c, r) == [op |-> o, arg |-> i, ret |-> r, by |-> c, body |-> ZeroUser]
NoReq == [op |-> "", id |-> "", uid |-> "", sid |-> ""]

CleanOff == [pc |-> "off", todo |-> {}, key |-> "", val |-> 0]

\* ---- the shopping cart (pkg/shopping), as its contract describes it ----
\* The products a request body decodes to: an id and the unit values the
\* caller supplies.  The same id may come with other unit values in a later
\* request.  Values are whole numbers, which float32 adds and multiplies
\* exactly in the range the model reaches.
ProductBodies ==
    { [id |-> 1, brand |-> "b1", category |-> "k1", type |-> "t1",
       weight |-> 2, discount |-> 0, taxes |-> 0, subtotal |-> 10, total |-> 10],
      [id |-> 1, brand |-> "b1", category |-> "k1", type |-> "t1",
       weight |-> 3, discount |-> 1, taxes |-> 2, subtotal |-> 10, total |-> 11],
      [id |-> 2, brand |-> "b2", category |-> "k1", type |-> "t2",
       weight |-> 1, discount |-> 0, taxes |-> 1, subtotal |-> 4, total |-> 5] }
NoProduct == [id |-> 0, brand |-> "", category |-> "", type |-> "",
              weight |-> 0, discount |-> 0, taxes |-> 0, subtotal |-> 0, total |-> 0]
ProductIDs == {b.id : b \in ProductBodies}
\* the cart-level aggregates and the CartItem fields they sum
Aggregates == {"weight", "discount", "taxes", "subtotal", "total"}

\* a CartItem: the product in the given quantity, its fields scaled by it
CartItem(product, qty) ==
    [id |-> product.id, brand |-> product.brand, category |-> product.category,
     type |-> product.type, quantity |-> qty,
     weight |-> product.weight * qty, discount |-> product.discount * qty,
     taxes |-> product.taxes * qty, subtotal |-> product.subtotal * qty,
     total |-> product.total * qty]
NoItem == CartItem(NoProduct, 0)

\* an empty cart: no items, counter and aggregates zero
NewCart == [items |-> EmptyMap, counter |-> 0,
            weight |-> 0, discount |-> 0, taxes |-> 0, subtotal |-> 0, total |-> 0]
\* the item of a product identity, the zero item when the cart has none
ItemOf(c, id) == IF id \in DOMAIN c.items THEN c.items[id] ELSE NoItem

\* add, first part: the entry of the product gets the incremented quantity and
\* its scaled fields are recomputed from the unit values of this call
AddItem(c, product, q) ==
    [c EXCEPT !.items =
        MapPut(c.items, product.id, CartItem(product, ItemOf(c, product.id).quantity + q))]
\* add, second part: every aggregate is incremented by the delta of the entry
\* (old is the entry before the call); the counter counts distinct items
AddTotalsByCall(c, old, product, q) ==
    [c EXCEPT !.counter = IF old = NoItem THEN @ + 1 ELSE @,
              !.weight = @ + product.weight * q,
              !.discount = @ + product.discount * q,
              !.taxes = @ + product.taxes * q,
              !.subtotal = @ + product.subtotal * q,
              !.total = @ + product.total * q]
AddTotals(c, old, product, q) ==
    LET new == CartItem(product, old.quantity + q) IN
    [c EXCEPT !.counter = IF old = NoItem THEN @ + 1 ELSE @,
              !.weight = @ + new.weight - old.weight,
              !.discount = @ + new.discount - old.discount,
              !.taxes = @ + new.taxes - old.taxes,
              !.subtotal = @ + new.subtotal - old.subtotal,
              !.total = @ + new.total - old.total]
\* add(item, quantity): the cart after the call, and its error
Add(c, product, q) ==
    IF q = 0 THEN [cart |-> c, err |-> "InvalidQuantityError"]
    ELSE [cart |-> AddTotals(AddItem(c, product, q), ItemOf(c, product.id), product, q),
          err |-> ""]

\* remove, first part: the item's contribution leaves every aggregate
RemoveTotalsKeepsCounter(c, id) ==
    [c EXCEPT !.weight = @ - c.items[id].weight,
              !.discount = @ - c.items[id].discount,
              !.taxes = @ - c.items[id].taxes,
              !.subtotal = @ - c.items[id].subtotal,
              !.total = @ - c.items[id].total]
RemoveTotals(c, id) ==
    [c EXCEPT !.counter = @ - 1,
              !.weight = @ - c.items[id].weight,
              !.discount = @ - c.items[id].discount,
              !.taxes = @ - c.items[id].taxes,
              !.subtotal = @ - c.items[id].subtotal,
              !.total = @ - c.items[id].total]
\* remove, second part: the entry is deleted
RemoveItem(c, id) == [c EXCEPT !.items = MapDelete(c.items, id)]
\* remove(productID): the cart after the call, and its error
Remove(c, id) ==
    IF id \notin DOMAIN c.items THEN [cart |-> c, err |-> "ItemNotFoundError"]
    ELSE [cart |-> RemoveItem(RemoveTotals(c, id), id), err |-> ""]

\* reset(): clears the items, then zeroes every aggregate
ResetItems(c) == [c EXCEPT !.items = EmptyMap]
ResetTotals(c) == [NewCart EXCEPT !.items = c.items]
Reset(c) == ResetTotals(ResetItems(c))

\* size(): the item counter
Size(c) == c.counter
\* checkout(): a copy of the aggregates and the items
Checkout(c) == c
\* items(): the entries
Items(c) == {c.items[id] : id \in DOMAIN c.items}
\* the filters: the items whose field has the value, or lies in the range
FilterBy(c, field, value) == {i \in Items(c) : i[field] = value}
FilterByRange(c, field, min, max) == {i \in Items(c) : min <= i[field] /\ i[field] <= max}
\* the reference behaviour: an empty result is the NoMatchError
NoMatch(list) == list = {}

\* what a cart handler has in hand while it runs, and what it has written
NoCartReq == [op |-> "", arg |-> "", product |-> NoProduct, quantity |-> 0, key |-> 0,
              old |-> NoItem, status |-> <<>>]
\* a response: to which handler and path variable, the statuses written, in
\* order, and what was serialized
NoBody == [cart |-> NewCart, n |-> 0, list |-> {}]
NoOut == [op |-> "", arg |-> "", status |-> <<>>, body |-> NoBody]

\* ---- expressions of the code ----
\* Clean: time.Now().Sub(value.lastSeen) > (time.Hour * 120)
Expired(lastSeen, t) == t - lastSeen > SessionMaxIdle

\* Login: !s.delay[email].IsZero() && s.delay[email].Sub(time.Now()) > 0
ThrottledNever(d, e, t) == FALSE
ThrottledInclusive(d, e, t) == e \in DOMAIN d /\ d[e] - t >= 0
Throttled(d, e, t) == e \in DOMAIN d /\ d[e] - t > 0

\* Logout: time.Now().Sub(s.cleaned) > (time.Second * 30)
SweepDue(c, t) == t - c > SweepInterval

\* loginDelay: s.tries[email] = append(s.tries[email], struct{}{})
AppendTryOverwrite(tr, e) == MapPut(tr, e, 1)
AppendTry(tr, e) == MapPut(tr, e, TriesLen(tr, e) + 1)

\* loginDelay: d := len(s.tries[email]) * 2; time.Now().Add(time.Second * time.Duration(d))
NextAllowedBack(n, t) == t - n * DelayUnit
NextAllowedSquare(n, t) == t + n * n * DelayUnit
NextAllowed(n, t) == t + n * DelayUnit

\* Login: the error returned after loginDelay, line 102 (the SELECT failed) and
\* line 107 (the password does not match)
LoginErrorTelling(o) == IF o = "norow" THEN "unknown" ELSE "invalid"
LoginError(o) == IF o \in {"norow", "dberr"} THEN "invalid" ELSE "invalid"

\* Login: delete(s.tries, email); delete(s.delay, email)
ClearDelayKeep(d, e) == d
ClearDelay(d, e) == MapDelete(d, e)
ClearTriesKeep(tr, e) == tr
ClearTries(tr, e) == MapDelete(tr, e)

\* NewSession (auth.go 48-57): the registry is empty and no request is running
NewSession ==
    /\ now = 0
    /\ store = EmptyMap
    /\ cleaned = 0
    /\ tries = EmptyMap
    /\ delay = EmptyMap
    /\ lock = 0
    /\ pc = [p \in Procs |-> "idle"]
    /\ arg = [p \in Procs |-> ""]
    /\ err = [p \in Procs |-> ""]
    /\ user = [p \in Procs |-> ""]
    /\ resp = NoResp
    /\ cl = [c \in Cleaners |-> CleanOff]
    /\ used = {}
    /\ calls = 0
    /\ fatal = FALSE
    /\ req = [p \in Procs |-> NoReq]
    /\ cache = EmptyMap
    /\ nfail = [e \in Emails |-> 0]
    /\ lastFail = [e \in Emails |-> 0]
    /\ vfail = [e \in Emails |-> 0]
    /\ succ = [e \in Emails |-> FALSE]
    /\ cause = ""
    /\ lapsed = {}
    /\ cart = NewCart
    /\ cartLock = 0
    /\ creq = EmptyMap
    /\ out = NoOut

\* one account exists, with its cart: a@x.com is known and b@x.com is not
Init ==
    /\ NewSession
    /\ users = [i \in {"u1"} |-> UserRow[i]]
    /\ carts = {"c1"}

\* both accounts exist, each with its cart, and a@x.com has logged in at time 0:
\* its session is s1
InitUsers ==
    /\ now = 0
    /\ store = MapPut(EmptyMap, TokenPool[1], [email |-> UserRow["u1"].email, lastSeen |-> 0])
    /\ used = {TokenPool[1]}
    /\ succ = [e \in Emails |-> e = UserRow["u1"].email]
    /\ cleaned = 0
    /\ tries = EmptyMap
    /\ delay = EmptyMap
    /\ lock = 0
    /\ pc = [p \in Procs |-> "idle"]
    /\ arg = [p \in Procs |-> ""]
    /\ err = [p \in Procs |-> ""]
    /\ user = [p \in Procs |-> ""]
    /\ resp = NoResp
    /\ cl = [c \in Cleaners |-> CleanOff]
    /\ calls = 0
    /\ fatal = FALSE
    /\ req = [p \in Procs |-> NoReq]
    /\ cache = EmptyMap
    /\ nfail = [e \in Emails |-> 0]
    /\ lastFail = [e \in Emails |-> 0]
    /\ vfail = [e \in Emails |-> 0]
    /\ cause = ""
    /\ lapsed = {}
    /\ cart = NewCart
    /\ cartLock = 0
    /\ creq = EmptyMap
    /\ out = NoOut
    /\ users = UserRow
    /\ carts = CartIDs

\* the clock moves forward
Tick ==
    /\ ~fatal
    /\ \E t \in Times : t > now /\ now' = t
    /\ lapsed' = lapsed \cup {k \in DOMAIN store : Expired(store[k].lastSeen, now')}
    /\ UNCHANGED <<err, user>>
    /\ UNCHANGED handVars
    /\ UNCHANGED cartVars
    /\ UNCHANGED <<store, cleaned, tries, delay, lock, pc, arg, resp, cl, used, calls, fatal>>
    /\ UNCHANGED <<nfail, lastFail, vfail, succ, cause>>


\* The request goroutines are interchangeable: a new request is served by the
\* idle goroutine of lowest index.
Serves(p) == pc[p] = "idle" /\ \A q \in Procs : pc[q] = "idle" => p <= q

\* ---- Login (auth.go 91-138) ----
\* session tokens reserved by the logins that passed verification
Minting == Cardinality({q \in Procs : pc[q] \in {"loginLock", "loginBody"}})

\* a gate that pushes the deadline back on every rejected attempt
LoginPenalises(p, e) ==
    /\ ~fatal
    /\ Serves(p)
    /\ calls < MaxCalls
    /\ calls' = calls + 1
    /\ IF Throttled(delay, e, now)
       THEN /\ resp' = Resp("Login", e, "throttled")
            /\ cause' = ""
            /\ delay' = MapPut(delay, e, delay[e] + DelayUnit)
            /\ UNCHANGED <<pc, arg>>
       ELSE /\ pc' = [pc EXCEPT ![p] = "verify"]
            /\ arg' = [arg EXCEPT ![p] = e]
            /\ delay' = delay
            /\ UNCHANGED <<resp, cause>>
    /\ UNCHANGED <<err, user>>
    /\ UNCHANGED handVars
    /\ UNCHANGED cartVars
    /\ UNCHANGED <<now, store, cleaned, tries, lock, cl, used, fatal>>
    /\ UNCHANGED <<nfail, lastFail, vfail, succ, lapsed>>

\* lines 92-94: the throttle gate, read without the lock
Login(p, e) ==
    /\ ~fatal
    /\ Serves(p)
    /\ calls < MaxCalls
    /\ calls' = calls + 1
    /\ IF Throttled(delay, e, now)
       THEN /\ resp' = Resp("Login", e, "throttled")
            /\ cause' = ""
            /\ UNCHANGED <<pc, arg>>
       ELSE /\ pc' = [pc EXCEPT ![p] = "verify"]
            /\ arg' = [arg EXCEPT ![p] = e]
            /\ UNCHANGED <<resp, cause>>
    /\ UNCHANGED <<err, user>>
    /\ UNCHANGED handVars
    /\ UNCHANGED cartVars
    /\ UNCHANGED <<now, store, cleaned, tries, delay, lock, cl, used, fatal>>
    /\ UNCHANGED <<nfail, lastFail, vfail, succ, lapsed>>

\* lines 96-119: the SELECT, bcrypt.CompareHashAndPassword and token.GenerateRunes
LoginVerify(p, outcome) ==
    /\ ~fatal
    /\ pc[p] = "verify"
    /\ outcome = "norow" <=> arg[p] \notin Registered
    /\ IF outcome = "good"
       THEN /\ Cardinality(used) + Minting < NumTokens
            /\ pc' = [pc EXCEPT ![p] = "loginLock"]
            /\ err' = err
            /\ vfail' = vfail
       ELSE /\ pc' = [pc EXCEPT ![p] = "delayLock"]
            /\ err' = [err EXCEPT ![p] = outcome]
            /\ vfail' = [vfail EXCEPT ![arg[p]] = IF succ[arg[p]] THEN 0 ELSE @ + 1]
    /\ UNCHANGED user
    /\ UNCHANGED handVars
    /\ UNCHANGED cartVars
    /\ UNCHANGED <<now, store, cleaned, tries, delay, lock, arg, resp, cl, used, calls, fatal>>
    /\ UNCHANGED <<nfail, lastFail, succ, cause, lapsed>>

\* line 162: s.Lock() in loginDelay
loginDelayLock(p) ==
    /\ ~fatal
    /\ pc[p] = "delayLock"
    /\ lock = 0
    /\ lock' = p
    /\ pc' = [pc EXCEPT ![p] = "delayBody"]
    /\ UNCHANGED <<err, user>>
    /\ UNCHANGED handVars
    /\ UNCHANGED cartVars
    /\ UNCHANGED <<now, store, cleaned, tries, delay, arg, resp, cl, used, calls, fatal>>
    /\ UNCHANGED histVars

\* lines 165-169 and the return of lines 102, 107
loginDelay(p) ==
    /\ ~fatal
    /\ pc[p] = "delayBody"
    /\ tries' = AppendTry(tries, arg[p])
    /\ delay' = MapPut(delay, arg[p], NextAllowed(TriesLen(tries', arg[p]), now))
    /\ lock' = 0
    /\ pc' = [pc EXCEPT ![p] = "idle"]
    /\ arg' = [arg EXCEPT ![p] = ""]
    /\ err' = [err EXCEPT ![p] = ""]
    /\ resp' = Resp("Login", arg[p], LoginError(err[p]))
    /\ nfail' = [nfail EXCEPT ![arg[p]] = @ + 1]
    /\ lastFail' = [lastFail EXCEPT ![arg[p]] = now]
    /\ cause' = err[p]
    /\ UNCHANGED user
    /\ UNCHANGED handVars
    /\ UNCHANGED cartVars
    /\ UNCHANGED <<now, store, cleaned, cl, used, calls, fatal, vfail, succ, lapsed>>

\* line 121
LoginLock(p) ==
    /\ ~fatal
    /\ pc[p] = "loginLock"
    /\ lock = 0
    /\ lock' = p
    /\ pc' = [pc EXCEPT ![p] = "loginBody"]
    /\ UNCHANGED <<err, user>>
    /\ UNCHANGED handVars
    /\ UNCHANGED cartVars
    /\ UNCHANGED <<now, store, cleaned, tries, delay, arg, resp, cl, used, calls, fatal>>
    /\ UNCHANGED histVars

\* token.GenerateRunes(27): a token never handed out before.  Tokens are opaque
\* and interchangeable, so the one of lowest index stands for any fresh token.
GenerateRunesReuse == TokenPool[1]
GenerateRunes ==
    TokenPool[CHOOSE i \in 1..NumTokens :
        TokenPool[i] \notin used /\ \A j \in 1..(i - 1) : TokenPool[j] \in used]

\* the Clean goroutines whose range loop is under way
Ranging == {c \in Cleaners : cl[c].pc \in {"iter", "test"}}

\* lines 118, 122-125.  An entry created during an iteration of the map may be
\* produced by that iteration or skipped: S is the set of loops that will produce it.
LoginStoreSingle(p) ==
    /\ ~fatal
    /\ pc[p] = "loginBody"
    /\ \E S \in SUBSET Ranging : LET sID == GenerateRunes IN
        /\ store' = MapPut([k \in {x \in DOMAIN store : store[x].email # arg[p]} |-> store[k]],
                         sID, [email |-> arg[p], lastSeen |-> now])
        /\ used' = used \cup {sID}
        /\ cl' = [c \in Cleaners |->
                    IF c \in S THEN [cl[c] EXCEPT !.todo = @ \cup {sID}] ELSE cl[c]]
    /\ tries' = ClearTries(tries, arg[p])
    /\ delay' = ClearDelay(delay, arg[p])
    /\ lock' = 0
    /\ pc' = [pc EXCEPT ![p] = "jwt"]
    /\ nfail' = [nfail EXCEPT ![arg[p]] = 0]
    /\ vfail' = [vfail EXCEPT ![arg[p]] = 0]
    /\ succ' = [succ EXCEPT ![arg[p]] = TRUE]
    /\ UNCHANGED <<err, user>>
    /\ UNCHANGED handVars
    /\ UNCHANGED cartVars
    /\ UNCHANGED <<now, cleaned, arg, resp, calls, fatal, lastFail, cause, lapsed>>
LoginStore(p) ==
    /\ ~fatal
    /\ pc[p] = "loginBody"
    /\ \E S \in SUBSET Ranging : LET sID == GenerateRunes IN
        /\ store' = MapPut(store, sID, [email |-> arg[p], lastSeen |-> now])
        /\ used' = used \cup {sID}
        /\ cl' = [c \in Cleaners |->
                    IF c \in S THEN [cl[c] EXCEPT !.todo = @ \cup {sID}] ELSE cl[c]]
    /\ tries' = ClearTries(tries, arg[p])
    /\ delay' = ClearDelay(delay, arg[p])
    /\ lock' = 0
    /\ pc' = [pc EXCEPT ![p] = "jwt"]
    /\ nfail' = [nfail EXCEPT ![arg[p]] = 0]
    /\ vfail' = [vfail EXCEPT ![arg[p]] = 0]
    /\ succ' = [succ EXCEPT ![arg[p]] = TRUE]
    /\ UNCHANGED <<err, user>>
    /\ UNCHANGED handVars
    /\ UNCHANGED cartVars
    /\ UNCHANGED <<now, cleaned, arg, resp, calls, fatal, lastFail, cause, lapsed>>

\* lines 128-137: token.GenerateFixedJWT succeeds or fails
LoginJWT(p, signed) ==
    /\ ~fatal
    /\ pc[p] = "jwt"
    /\ pc' = [pc EXCEPT ![p] = "idle"]
    /\ arg' = [arg EXCEPT ![p] = ""]
    /\ resp' = Resp("Login", arg[p], IF signed THEN "ok" ELSE "internal")
    /\ UNCHANGED <<err, user>>
    /\ UNCHANGED handVars
    /\ UNCHANGED cartVars
    /\ UNCHANGED <<now, store, cleaned, tries, delay, lock, cl, used, calls, fatal>>
    /\ cause' = ""
    /\ UNCHANGED <<nfail, lastFail, vfail, succ, lapsed>>


\* ---- AlreadyLoggedIn (auth.go 60-78) ----
\* lines 61-64: the request carries no SID cookie
AlreadyLoggedInNoCookie(p) ==
    /\ ~fatal
    /\ Serves(p)
    /\ calls < MaxCalls
    /\ calls' = calls + 1
    /\ resp' = Resp("AlreadyLoggedIn", "", "false")
    /\ UNCHANGED <<err, user>>
    /\ UNCHANGED handVars
    /\ UNCHANGED cartVars
    /\ UNCHANGED <<now, store, cleaned, tries, delay, lock, pc, arg, cl, used, fatal>>
    /\ UNCHANGED histVars

\* lines 61, 66
AlreadyLoggedInLock(p, tok) ==
    /\ ~fatal
    /\ Serves(p)
    /\ calls < MaxCalls
    /\ calls' = calls + 1
    /\ lock = 0
    /\ lock' = p
    /\ pc' = [pc EXCEPT ![p] = "aliBody"]
    /\ arg' = [arg EXCEPT ![p] = tok]
    /\ UNCHANGED <<err, user>>
    /\ UNCHANGED handVars
    /\ UNCHANGED cartVars
    /\ UNCHANGED <<now, store, cleaned, tries, delay, resp, cl, used, fatal>>
    /\ UNCHANGED histVars

\* line 69: user, ok := s.store[cookie.Value]; lines 76-77 and the deferred
\* Unlock when the token is not a key
AlreadyLoggedIn(p) ==
    /\ ~fatal
    /\ pc[p] = "aliBody"
    /\ IF arg[p] \in DOMAIN store
       THEN /\ user' = [user EXCEPT ![p] = store[arg[p]].email]
            /\ pc' = [pc EXCEPT ![p] = "aliWrite"]
            /\ UNCHANGED <<lock, arg, resp>>
       ELSE /\ resp' = Resp("AlreadyLoggedIn", arg[p], "false")
            /\ lock' = 0
            /\ pc' = [pc EXCEPT ![p] = "idle"]
            /\ arg' = [arg EXCEPT ![p] = ""]
            /\ user' = user
    /\ UNCHANGED <<now, store, cleaned, tries, delay, cl, used, calls, fatal>>
    /\ UNCHANGED err
    /\ UNCHANGED handVars
    /\ UNCHANGED cartVars
    /\ UNCHANGED histVars

\* lines 70-77 and the deferred Unlock: user.lastSeen = time.Now();
\* s.store[cookie.Value] = user.  If Clean deleted the entry after line 69 the
\* assignment creates it again, and a range loop under way may produce it or not
\* (S, as in LoginStore).
AlreadyLoggedInKeep(p) ==
    /\ ~fatal
    /\ pc[p] = "aliWrite"
    /\ store' = store
    /\ cl' = cl
    /\ resp' = Resp("AlreadyLoggedIn", arg[p], "true")
    /\ lock' = 0
    /\ pc' = [pc EXCEPT ![p] = "idle"]
    /\ arg' = [arg EXCEPT ![p] = ""]
    /\ user' = [user EXCEPT ![p] = ""]
    /\ UNCHANGED <<now, cleaned, tries, delay, used, calls, fatal>>
    /\ UNCHANGED err
    /\ UNCHANGED handVars
    /\ UNCHANGED cartVars
    /\ UNCHANGED histVars
AlreadyLoggedInRefresh(p) ==
    /\ ~fatal
    /\ pc[p] = "aliWrite"
    /\ store' = MapPut(store, arg[p], [email |-> user[p], lastSeen |-> now])
    /\ \E S \in SUBSET Ranging :
        /\ arg[p] \in DOMAIN store => S = {}
        /\ cl' = [c \in Cleaners |->
                    IF c \in S THEN [cl[c] EXCEPT !.todo = @ \cup {arg[p]}] ELSE cl[c]]
    /\ resp' = Resp("AlreadyLoggedIn", arg[p], "true")
    /\ lock' = 0
    /\ pc' = [pc EXCEPT ![p] = "idle"]
    /\ arg' = [arg EXCEPT ![p] = ""]
    /\ user' = [user EXCEPT ![p] = ""]
    /\ UNCHANGED <<now, cleaned, tries, delay, used, calls, fatal>>
    /\ UNCHANGED err
    /\ UNCHANGED handVars
    /\ UNCHANGED cartVars
    /\ UNCHANGED histVars

\* ---- Logout (auth.go 141-158) ----
\* lines 142-151; tok is c.Value
LogoutLock(p, tok) ==
    /\ ~fatal
    /\ Serves(p)
    /\ calls < MaxCalls
    /\ calls' = calls + 1
    /\ lock = 0
    /\ lock' = p
    /\ pc' = [pc EXCEPT ![p] = "outBody"]
    /\ arg' = [arg EXCEPT ![p] = tok]
    /\ UNCHANGED <<err, user>>
    /\ UNCHANGED handVars
    /\ UNCHANGED cartVars
    /\ UNCHANGED <<now, store, cleaned, tries, delay, resp, cl, used, fatal>>
    /\ UNCHANGED histVars

\* lines 152-153
LogoutClear(p) ==
    /\ ~fatal
    /\ pc[p] = "outBody"
    /\ store' = IF arg[p] \in DOMAIN store THEN MapDelete(store, arg[p]) ELSE EmptyMap
    /\ lock' = 0
    /\ pc' = [pc EXCEPT ![p] = "outCheck"]
    /\ UNCHANGED <<err, user>>
    /\ UNCHANGED handVars
    /\ UNCHANGED cartVars
    /\ UNCHANGED <<now, cleaned, tries, delay, arg, resp, cl, used, calls, fatal>>
    /\ UNCHANGED histVars
Logout(p) ==
    /\ ~fatal
    /\ pc[p] = "outBody"
    /\ store' = MapDelete(store, arg[p])
    /\ lock' = 0
    /\ pc' = [pc EXCEPT ![p] = "outCheck"]
    /\ UNCHANGED <<err, user>>
    /\ UNCHANGED handVars
    /\ UNCHANGED cartVars
    /\ UNCHANGED <<now, cleaned, tries, delay, arg, resp, cl, used, calls, fatal>>
    /\ UNCHANGED histVars

\* the slot of the next Clean goroutine
FreeCleaners == {c \in Cleaners : cl[c].pc = "off"}
NextCleaner == CHOOSE c \in FreeCleaners : \A d \in FreeCleaners : c <= d

\* lines 155-157: s.cleaned is read without the lock; go s.Clean().  Logout
\* returns; when a user handler called it, the handler writes its 200 response.
LogoutSweep(p) ==
    /\ ~fatal
    /\ pc[p] = "outCheck"
    /\ IF SweepDue(cleaned, now)
       THEN /\ FreeCleaners # {}
            /\ cl' = [cl EXCEPT ![NextCleaner] = [CleanOff EXCEPT !.pc = "spawned"]]
       ELSE cl' = cl
    /\ pc' = [pc EXCEPT ![p] = "idle"]
    /\ arg' = [arg EXCEPT ![p] = ""]
    /\ resp' = IF req[p] = NoReq
               THEN Resp("Logout", arg[p], "done")
               ELSE Responds(req[p].op, req[p].id, req[p].uid, "200")
    /\ req' = [req EXCEPT ![p] = NoReq]
    /\ UNCHANGED <<err, user>>
    /\ UNCHANGED <<users, carts, cache>>
    /\ UNCHANGED cartVars
    /\ UNCHANGED <<now, store, cleaned, tries, delay, lock, used, calls, fatal>>
    /\ UNCHANGED histVars

\* ---- Clean (auth.go 81-88), no lock ----
\* line 82: the range loop starts over the entries of the map
CleanBegin(c) ==
    /\ ~fatal
    /\ cl[c].pc = "spawned"
    /\ cl' = [cl EXCEPT ![c] = [@ EXCEPT !.pc = "iter", !.todo = DOMAIN store]]
    /\ UNCHANGED <<err, user>>
    /\ UNCHANGED handVars
    /\ UNCHANGED cartVars
    /\ UNCHANGED <<now, store, cleaned, tries, delay, lock, pc, arg, resp, used, calls, fatal>>
    /\ UNCHANGED histVars

\* line 82: the range yields an entry that is still in the map; value is a copy
CleanRange(c) ==
    /\ ~fatal
    /\ cl[c].pc = "iter"
    /\ \E k \in cl[c].todo \cap DOMAIN store :
        cl' = [cl EXCEPT ![c] = [pc |-> "test", todo |-> cl[c].todo \ {k},
                                 key |-> k, val |-> store[k].lastSeen]]
    /\ UNCHANGED <<err, user>>
    /\ UNCHANGED handVars
    /\ UNCHANGED cartVars
    /\ UNCHANGED <<now, store, cleaned, tries, delay, lock, pc, arg, resp, used, calls, fatal>>
    /\ UNCHANGED histVars

\* lines 83-85
CleanTest(c) ==
    /\ ~fatal
    /\ cl[c].pc = "test"
    /\ store' = IF Expired(cl[c].val, now) THEN MapDelete(store, cl[c].key) ELSE store
    /\ cl' = [cl EXCEPT ![c] = [@ EXCEPT !.pc = "iter", !.key = "", !.val = 0]]
    /\ UNCHANGED <<err, user>>
    /\ UNCHANGED handVars
    /\ UNCHANGED cartVars
    /\ UNCHANGED <<now, cleaned, tries, delay, lock, pc, arg, resp, used, calls, fatal>>
    /\ UNCHANGED histVars

\* line 87: the loop is over, s.cleaned = time.Now()
CleanDone(c) ==
    /\ ~fatal
    /\ cl[c].pc = "iter"
    /\ cl[c].todo \cap DOMAIN store = {}
    /\ cleaned' = now
    /\ cl' = [cl EXCEPT ![c] = CleanOff]
    /\ UNCHANGED <<err, user>>
    /\ UNCHANGED handVars
    /\ UNCHANGED cartVars
    /\ UNCHANGED <<now, store, tries, delay, lock, pc, arg, resp, used, calls, fatal>>
    /\ UNCHANGED histVars

\* ---- the runtime's detection of unsynchronised map access ----
StoreWriter(p) == pc[p] \in {"aliWrite", "loginBody", "outBody"}
StoreUser(p) == pc[p] \in {"aliBody", "aliWrite", "loginBody", "outBody"}
CleanWriter(c) == cl[c].pc = "test" /\ Expired(cl[c].val, now)
\* an access of s.store by Clean overlaps a write, or a write by Clean overlaps an access
StoreRace ==
    \E c \in Ranging :
        \/ \E p \in Procs : StoreWriter(p)
        \/ CleanWriter(c) /\ \E p \in Procs : StoreUser(p)
        \/ \E d \in Ranging \ {c} : CleanWriter(d)
\* Login's read of s.delay overlaps a write of s.delay or s.tries
DelayRace == \E q \in Procs : pc[q] \in {"delayBody", "loginBody"}

\* the process is gone, and its memory with it
Dead ==
    /\ fatal' = TRUE
    /\ store' = EmptyMap
    /\ tries' = EmptyMap
    /\ delay' = EmptyMap
    /\ cleaned' = 0
    /\ lock' = 0
    /\ pc' = [p \in Procs |-> "idle"]
    /\ arg' = [p \in Procs |-> ""]
    /\ err' = [p \in Procs |-> ""]
    /\ user' = [p \in Procs |-> ""]
    /\ resp' = NoResp
    /\ cl' = [c \in Cleaners |-> CleanOff]
    /\ used' = {}
    /\ calls' = 0
    /\ nfail' = [e \in Emails |-> 0]
    /\ lastFail' = [e \in Emails |-> 0]
    /\ vfail' = [e \in Emails |-> 0]
    /\ succ' = [e \in Emails |-> FALSE]
    /\ cause' = ""
    /\ lapsed' = {}
    /\ req' = [p \in Procs |-> NoReq]
    /\ cache' = EmptyMap
    /\ cart' = NewCart
    /\ cartLock' = 0
    /\ creq' = EmptyMap
    /\ out' = NoOut
    /\ UNCHANGED <<now, users, carts>>

\* fatal error: concurrent map iteration and map write / concurrent map writes
FatalStore ==
    /\ ~fatal
    /\ StoreRace
    /\ Dead

\* fatal error: concurrent map read and map write, at line 92
FatalDelay(p) ==
    /\ ~fatal
    /\ Serves(p)
    /\ calls < MaxCalls
    /\ DelayRace
    /\ Dead

\* ---- the authorization token (UID cookie) ----
\* the request carries no UID cookie: r.Cookie("UID") returns nil and an error
NoCookie == ""
\* token.GenerateFixedJWT(user.ID): the signed token that binds the account id
GenerateFixedJWT(i) == CASE i = "u1" -> "jwt.u1" [] i = "u2" -> "jwt.u2"
\* the values a client may send as UID cookie: the tokens, and a malformed one
UIDValues == {GenerateFixedJWT(i) : i \in UserIDs} \cup {"garbage"}
\* auth.ParseFixedJWT(value): the account id bound in a token that verifies, or an error
ParseFixedJWTAny(v) == [id |-> "u1", err |-> FALSE]
ParseFixedJWT(v) ==
    IF \E i \in UserIDs : GenerateFixedJWT(i) = v
    THEN [id |-> CHOOSE i \in UserIDs : GenerateFixedJWT(i) = v, err |-> FALSE]
    ELSE [id |-> "", err |-> TRUE]
\* token.CheckPermits(id, value): TRUE when it returns an error
CheckPermits(i, v) == ParseFixedJWT(v).err \/ ParseFixedJWT(v).id # i

\* shopping.DeleteCart(db, cartID), cart.Delete(ctx, db, cartID)
DeleteCart(cs, c) == cs \ {c}
\* d.DeleteUser(db, id), h.Service.Delete(ctx, id)
DeleteUser(us, i) == [x \in (DOMAIN us) \ {i} |-> us[x]]
\* u.UpdateUser(db, &user, id): the row of id takes the fields of the body
UpdateUser(us, i, n) == [x \in DOMAIN us |-> IF x = i THEN [us[x] EXCEPT !.name = n] ELSE us[x]]

\* ---- Users.Delete (part_000 71-121) ----
\* fail names the collaborator call that returns an error, "" if none does
DeleteFails == {"", "pending", "validated", "cart", "user"}
\* what the handler answers: lines 74-88 are the authorization check
UsersDeleteStatus(i, c, fail) ==
    IF c = NoCookie THEN "panic"
    ELSE IF ParseFixedJWT(c).err THEN "500"
    ELSE IF ParseFixedJWT(c).id # i THEN "401"
    ELSE IF fail # "" THEN "500"
    ELSE "200"

\* The handler up to its call of s.Logout (lines 73-115).  With no UID cookie uID
\* is nil and uID.Value panics; net/http recovers the panic of a handler and the
\* request gets no response.  user is never loaded: it is the zero value.
\* The SID cookie of the request (the token of a live session, or none) is
\* never read by the handler; req keeps it.
UsersDelete(p, i, c, fail) ==
    LET st == UsersDeleteStatus(i, c, fail)
        authorized == st \notin {"panic", "401"} /\ ~ParseFixedJWT(c).err
    IN
    /\ ~fatal
    /\ Serves(p)
    /\ calls < MaxCalls
    /\ calls' = calls + 1
    /\ ~authorized => fail = ""
    /\ carts' = IF authorized /\ fail \in {"", "user"}
                THEN DeleteCart(carts, ZeroUser.cart) ELSE carts
    /\ users' = IF st = "200" THEN DeleteUser(users, i) ELSE users
    /\ IF st = "200"
       THEN /\ pc' = [pc EXCEPT ![p] = "outLock"]
            /\ arg' = [arg EXCEPT ![p] = c]
            /\ \E sid \in (DOMAIN store) \cup {""} :
                  req' = [req EXCEPT ![p] =
                             [op |-> "Users.Delete", id |-> i, uid |-> c, sid |-> sid]]
            /\ resp' = resp
       ELSE /\ resp' = Responds("Users.Delete", i, c, st)
            /\ UNCHANGED <<pc, arg, req>>
    /\ UNCHANGED <<now, store, cleaned, tries, delay, lock, err, user, cl, used, fatal>>
    /\ UNCHANGED cache
    /\ UNCHANGED histVars
    /\ UNCHANGED cartVars

\* s.Logout called by a handler: s.Lock() at line 151
HandlerLogout(p) ==
    /\ ~fatal
    /\ pc[p] = "outLock"
    /\ lock = 0
    /\ lock' = p
    /\ pc' = [pc EXCEPT ![p] = "outBody"]
    /\ UNCHANGED <<now, store, cleaned, tries, delay, arg, err, user, resp, cl, used, calls, fatal>>
    /\ UNCHANGED handVars
    /\ UNCHANGED cartVars
    /\ UNCHANGED histVars

\* ---- Users.Update (part_000 209-242) ----
\* body is the username of the request body, "" when the body does not decode
Bodies == {"", "n1"}
UsersUpdateStatus(i, c, body, fail) ==
    IF c = NoCookie THEN "panic"
    ELSE IF ParseFixedJWT(c).err THEN "500"
    ELSE IF ParseFixedJWT(c).id # i THEN "401"
    ELSE IF body = "" THEN "400"
    ELSE IF fail THEN "500"
    ELSE "200"

UsersUpdate(p, i, c, body, fail) ==
    LET st == UsersUpdateStatus(i, c, body, fail) IN
    /\ ~fatal
    /\ Serves(p)
    /\ calls < MaxCalls
    /\ calls' = calls + 1
    /\ fail => st = "500" /\ ~ParseFixedJWT(c).err
    /\ users' = IF st = "200" THEN UpdateUser(users, i, body) ELSE users
    /\ resp' = Responds("Users.Update", i, c, st)
    /\ UNCHANGED <<now, store, cleaned, tries, delay, lock, pc, arg, err, user, cl, used, fatal>>
    /\ UNCHANGED <<carts, req, cache>>
    /\ UNCHANGED histVars
    /\ UNCHANGED cartVars

\* ---- Handler.Delete (pkg/user/handler.go 67-97) ----
HandlerDeleteFails == {"", "get", "cart", "user"}
\* cookie.Get(r, "UID") for a request without the cookie returns a nil cookie
\* (nilptr) or an empty one
HandlerDeleteStatus(i, c, nilptr, fail) ==
    IF c = NoCookie /\ nilptr THEN "panic"
    ELSE IF CheckPermits(i, c) THEN "401"
    ELSE IF i \notin DOMAIN users \/ fail = "get" THEN "404"
    ELSE IF fail # "" THEN "500"
    ELSE "200"

\* The handler up to its call of s.Logout(w, r) (lines 69-93), which ends the
\* session of the request: sid is its SID cookie, "" if it has none.
HandlerDelete(p, i, c, fail) ==
    /\ ~fatal
    /\ Serves(p)
    /\ calls < MaxCalls
    /\ calls' = calls + 1
    /\ \E nilptr \in IF c = NoCookie THEN BOOLEAN ELSE {FALSE} :
        LET st == HandlerDeleteStatus(i, c, nilptr, fail)
            found == st \in {"500", "200"}
        IN
        /\ ~found => fail \in {"", "get"} /\ (fail = "get" => st = "404")
        /\ carts' = IF found /\ fail \in {"", "user"}
                    THEN DeleteCart(carts, users[i].cart) ELSE carts
        /\ users' = IF st = "200" THEN DeleteUser(users, i) ELSE users
        /\ IF st = "200"
           THEN /\ pc' = [pc EXCEPT ![p] = "outLock"]
                /\ \E sid \in Tokens \cup {""} :
                      /\ arg' = [arg EXCEPT ![p] = sid]
                      /\ req' = [req EXCEPT ![p] =
                                    [op |-> "Handler.Delete", id |-> i, uid |-> c, sid |-> sid]]
                /\ resp' = resp
           ELSE /\ resp' = Responds("Handler.Delete", i, c, st)
                /\ UNCHANGED <<pc, arg, req>>
    /\ UNCHANGED <<now, store, cleaned, tries, delay, lock, err, user, cl, used, fatal>>
    /\ UNCHANGED cache
    /\ UNCHANGED histVars
    /\ UNCHANGED cartVars

\* ---- the cart handlers (part_001) ----
\* the path variables of the requests, and what strconv.Atoi makes of them
Numerals == ("-1" :> -1) @@ ("0" :> 0) @@ ("1" :> 1) @@ ("2" :> 2)
PathValues == (DOMAIN Numerals) \cup {"x"}
\* the amounts of the CartAdd requests
Amounts == {"-1", "0", "1", "x"}
Atoi(a) == IF a \in DOMAIN Numerals THEN [n |-> Numerals[a], err |-> FALSE]
           ELSE [n |-> 0, err |-> TRUE]
\* uint(key) of line 165: a negative key wraps around.  The width is 30 bits
\* here and 64 in the build; the product ids of the model are far below both.
UintAbs(k) == IF k < 0 THEN 0 - k ELSE k
Uint(k) == k % (2^30)

\* a handler's response: what it wrote so far, this status and this body
Writes(p, o, st, b) ==
    [op |-> o, arg |-> creq[p].arg, status |-> Append(creq[p].status, st), body |-> b]
CartBody(c) == [NoBody EXCEPT !.cart = c]
SizeBody(n) == [NoBody EXCEPT !.n = n]
ListBody(l) == [NoBody EXCEPT !.list = l]

\* CartAdd (lines 16-44), up to the first write of cart.Add.  decodes: the body
\* is a product.  After the Atoi error of line 29 the handler goes on, with
\* q = 0.  cart.Add takes the cart's lock, writes the entry, then the aggregates.
CartAddAny(p, product, decodes, amount) ==
    LET a == Atoi(amount)
        wrote == IF a.err THEN <<"400">> ELSE <<>>
        quantity == a.n
    IN
    /\ ~fatal
    /\ Serves(p)
    /\ calls < MaxCalls
    /\ calls' = calls + 1
    /\ IF ~decodes
       THEN /\ amount = "1"
            /\ out' = [op |-> "CartAdd", arg |-> amount, status |-> <<"400">>, body |-> NoBody]
            /\ UNCHANGED <<cart, cartLock, creq, pc>>
       ELSE /\ cartLock = 0
            /\ cartLock' = p
            /\ cart' = AddItem(cart, product, quantity)
            /\ creq' = MapPut(creq, p,
                           [op |-> "CartAdd", arg |-> amount, product |-> product,
                            quantity |-> quantity,
                            key |-> product.id, old |-> ItemOf(cart, product.id),
                            status |-> wrote])
            /\ pc' = [pc EXCEPT ![p] = "addTotals"]
            /\ out' = out
    /\ UNCHANGED <<now, store, cleaned, tries, delay, lock, arg, err, user, resp, cl, used, fatal>>
    /\ UNCHANGED handVars
    /\ UNCHANGED histVars
CartAdd(p, product, decodes, amount) ==
    LET a == Atoi(amount)
        wrote == IF a.err THEN <<"400">> ELSE <<>>
        quantity == a.n
    IN
    /\ ~fatal
    /\ Serves(p)
    /\ calls < MaxCalls
    /\ calls' = calls + 1
    /\ IF ~decodes
       THEN /\ amount = "1"
            /\ out' = [op |-> "CartAdd", arg |-> amount, status |-> <<"400">>, body |-> NoBody]
            /\ UNCHANGED <<cart, cartLock, creq, pc>>
       ELSE IF quantity = 0
       THEN /\ out' = [op |-> "CartAdd", arg |-> amount, status |-> Append(wrote, "400"),
                        body |-> NoBody]
            /\ UNCHANGED <<cart, cartLock, creq, pc>>
       ELSE /\ cartLock = 0
            /\ cartLock' = p
            /\ cart' = AddItem(cart, product, quantity)
            /\ creq' = MapPut(creq, p,
                           [op |-> "CartAdd", arg |-> amount, product |-> product,
                            quantity |-> quantity,
                            key |-> product.id, old |-> ItemOf(cart, product.id),
                            status |-> wrote])
            /\ pc' = [pc EXCEPT ![p] = "addTotals"]
            /\ out' = out
    /\ UNCHANGED <<now, store, cleaned, tries, delay, lock, arg, err, user, resp, cl, used, fatal>>
    /\ UNCHANGED handVars
    /\ UNCHANGED histVars

\* cart.Add, its second write, and the release of the lock
CartAddTotals(p) ==
    /\ ~fatal
    /\ pc[p] = "addTotals"
    /\ cart' = AddTotals(cart, creq[p].old, creq[p].product, creq[p].quantity)
    /\ cartLock' = 0
    /\ pc' = [pc EXCEPT ![p] = "cartJSON"]
    /\ UNCHANGED <<creq, out>>
    /\ UNCHANGED <<now, store, cleaned, tries, delay, lock, arg, err, user, resp, cl, used, calls, fatal>>
    /\ UNCHANGED handVars
    /\ UNCHANGED histVars

\* response.JSON(w, r, http.StatusOK, cart) of lines 42, 170 and 179: the
\* encoder reads the cart, without its lock
CartJSON(p) ==
    /\ ~fatal
    /\ pc[p] = "cartJSON"
    /\ out' = Writes(p, creq[p].op, "200", CartBody(cart))
    /\ creq' = MapDelete(creq, p)
    /\ pc' = [pc EXCEPT ![p] = "idle"]
    /\ UNCHANGED <<cart, cartLock>>
    /\ UNCHANGED <<now, store, cleaned, tries, delay, lock, arg, err, user, resp, cl, used, calls, fatal>>
    /\ UNCHANGED handVars
    /\ UNCHANGED histVars

\* CartRemove (lines 155-172), up to the first write of cart.Remove.  After
\* the error of cart.Remove (line 166) the handler goes on to line 170.
CartRemove(p, id) ==
    LET a == Atoi(id)
        key == Uint(a.n)
    IN
    /\ ~fatal
    /\ Serves(p)
    /\ calls < MaxCalls
    /\ calls' = calls + 1
    /\ IF a.err
       THEN /\ out' = [op |-> "CartRemove", arg |-> id, status |-> <<"500">>, body |-> NoBody]
            /\ UNCHANGED <<cart, cartLock, creq, pc>>
       ELSE /\ cartLock = 0
            /\ IF Remove(cart, key).err # ""
               THEN /\ creq' = MapPut(creq, p,
                                   [NoCartReq EXCEPT !.op = "CartRemove", !.arg = id, !.key = key,
                                                     !.status = <<"400">>])
                    /\ pc' = [pc EXCEPT ![p] = "cartJSON"]
                    /\ UNCHANGED <<cart, cartLock>>
               ELSE /\ cartLock' = p
                    /\ cart' = RemoveTotals(cart, key)
                    /\ creq' = MapPut(creq, p,
                                   [NoCartReq EXCEPT !.op = "CartRemove", !.arg = id, !.key = key,
                                                     !.old = cart.items[key]])
                    /\ pc' = [pc EXCEPT ![p] = "removeItem"]
            /\ out' = out
    /\ UNCHANGED <<now, store, cleaned, tries, delay, lock, arg, err, user, resp, cl, used, fatal>>
    /\ UNCHANGED handVars
    /\ UNCHANGED histVars

\* cart.Remove, its second write, and the release of the lock
CartRemoveItem(p) ==
    /\ ~fatal
    /\ pc[p] = "removeItem"
    /\ cart' = RemoveItem(cart, creq[p].key)
    /\ cartLock' = 0
    /\ pc' = [pc EXCEPT ![p] = "cartJSON"]
    /\ UNCHANGED <<creq, out>>
    /\ UNCHANGED <<now, store, cleaned, tries, delay, lock, arg, err, user, resp, cl, used, calls, fatal>>
    /\ UNCHANGED handVars
    /\ UNCHANGED histVars

\* CartReset (lines 175-181), up to the first write of cart.Reset
CartReset(p) ==
    /\ ~fatal
    /\ Serves(p)
    /\ calls < MaxCalls
    /\ calls' = calls + 1
    /\ cartLock = 0
    /\ cartLock' = p
    /\ cart' = ResetItems(cart)
    /\ creq' = MapPut(creq, p, [NoCartReq EXCEPT !.op = "CartReset"])
    /\ pc' = [pc EXCEPT ![p] = "resetTotals"]
    /\ out' = out
    /\ UNCHANGED <<now, store, cleaned, tries, delay, lock, arg, err, user, resp, cl, used, fatal>>
    /\ UNCHANGED handVars
    /\ UNCHANGED histVars

\* cart.Reset, its second write, and the release of the lock
CartResetTotals(p) ==
    /\ ~fatal
    /\ pc[p] = "resetTotals"
    /\ cart' = ResetTotals(cart)
    /\ cartLock' = 0
    /\ pc' = [pc EXCEPT ![p] = "cartJSON"]
    /\ UNCHANGED <<creq, out>>
    /\ UNCHANGED <<now, store, cleaned, tries, delay, lock, arg, err, user, resp, cl, used, calls, fatal>>
    /\ UNCHANGED handVars
    /\ UNCHANGED histVars

\* CartGet (lines 139-143): the encoder reads the cart, without its lock
CartGet(p) ==
    /\ ~fatal
    /\ Serves(p)
    /\ calls < MaxCalls
    /\ calls' = calls + 1
    /\ out' = [op |-> "CartGet", arg |-> "", status |-> <<"200">>, body |-> CartBody(cart)]
    /\ UNCHANGED <<cart, cartLock, creq, pc>>
    /\ UNCHANGED <<now, store, cleaned, tries, delay, lock, arg, err, user, resp, cl, used, fatal>>
    /\ UNCHANGED handVars
    /\ UNCHANGED histVars

\* the handlers of the reads: the method runs under the cart's lock and the
\* handler encodes what it returned.  body is the response of the read.
CartReadClears(p, o, st, body) ==
    /\ ~fatal
    /\ Serves(p)
    /\ calls < MaxCalls
    /\ calls' = calls + 1
    /\ cartLock = 0
    /\ out' = [op |-> o, arg |-> "", status |-> <<st>>, body |-> body]
    /\ cart' = Reset(cart)
    /\ UNCHANGED <<cartLock, creq, pc>>
    /\ UNCHANGED <<now, store, cleaned, tries, delay, lock, arg, err, user, resp, cl, used, fatal>>
    /\ UNCHANGED handVars
    /\ UNCHANGED histVars
CartRead(p, o, st, body) ==
    /\ ~fatal
    /\ Serves(p)
    /\ calls < MaxCalls
    /\ calls' = calls + 1
    /\ cartLock = 0
    /\ out' = [op |-> o, arg |-> "", status |-> <<st>>, body |-> body]
    /\ UNCHANGED <<cart, cartLock, creq, pc>>
    /\ UNCHANGED <<now, store, cleaned, tries, delay, lock, arg, err, user, resp, cl, used, fatal>>
    /\ UNCHANGED handVars
    /\ UNCHANGED histVars

\* CartCheckout (lines 47-53), CartItems (146-152), CartSize (184-190)
CartCheckout(p) == CartRead(p, "CartCheckout", "200", CartBody(Checkout(cart)))
CartItems(p) == CartRead(p, "CartItems", "200", ListBody(Items(cart)))
CartSize(p) == CartRead(p, "CartSize", "200", SizeBody(Size(cart)))

\* the filters (lines 56-136): 404 when the filter returns its error
CartFilter(p, o, list) ==
    IF NoMatch(list) THEN CartRead(p, o, "404", NoBody)
    ELSE CartRead(p, o, "200", ListBody(list))
CartFilterByBrand(p, brand) ==
    CartFilter(p, "CartFilterByBrand", FilterBy(cart, "brand", brand))
CartFilterByCategory(p, category) ==
    CartFilter(p, "CartFilterByCategory", FilterBy(cart, "category", category))
CartFilterByType(p, type) ==
    CartFilter(p, "CartFilterByType", FilterBy(cart, "type", type))
\* lines 91-94 and 125-128: the Atoi errors are dropped, the bound is then 0
CartFilterByTotal(p, min, max) ==
    CartFilter(p, "CartFilterByTotal", FilterByRange(cart, "total", Atoi(min).n, Atoi(max).n))
CartFilterByWeight(p, min, max) ==
    CartFilter(p, "CartFilterByWeight", FilterByRange(cart, "weight", Atoi(min).n, Atoi(max).n))

\* the encoder of a response reads the cart while cart.Add, cart.Remove or
\* cart.Reset writes it
CartRace(p) ==
    /\ cartLock # 0
    /\ \/ pc[p] = "cartJSON"
       \/ Serves(p) /\ calls < MaxCalls
\* fatal error: concurrent map iteration and map write
FatalCart(p) ==
    /\ ~fatal
    /\ CartRace(p)
    /\ Dead

Outcomes == {"norow", "dberr", "badpw", "good"}

Next ==
    \/ Tick
    \/ \E p \in Procs, e \in Emails : Login(p, e)
    \/ \E p \in Procs, o \in Outcomes : LoginVerify(p, o)
    \/ \E p \in Procs : loginDelayLock(p)
    \/ \E p \in Procs : loginDelay(p)
    \/ \E p \in Procs : LoginLock(p)
    \/ \E p \in Procs : LoginStore(p)
    \/ \E p \in Procs, b \in BOOLEAN : LoginJWT(p, b)
    \/ \E p \in Procs : AlreadyLoggedInNoCookie(p)
    \/ \E p \in Procs, t \in Tokens : AlreadyLoggedInLock(p, t)
    \/ \E p \in Procs : AlreadyLoggedIn(p)
    \/ \E p \in Procs : AlreadyLoggedInRefresh(p)
    \/ \E p \in Procs, t \in Tokens : LogoutLock(p, t)
    \/ \E p \in Procs : Logout(p)
    \/ \E p \in Procs : LogoutSweep(p)
    \/ \E c \in Cleaners : CleanBegin(c)
    \/ \E c \in Cleaners : CleanRange(c)
    \/ \E c \in Cleaners : CleanTest(c)
    \/ \E c \in Cleaners : CleanDone(c)
    \/ FatalStore
    \/ \E p \in Procs : FatalDelay(p)

Spec == Init /\ [][Next]_vars


\* Login traffic alone: no AlreadyLoggedIn, Logout or Clean.  Those touch only
\* s.store and s.cleaned, never s.tries or s.delay.
NextThrottle ==
    \/ Tick
    \/ \E p \in Procs, e \in Emails : Login(p, e)
    \/ \E p \in Procs, o \in Outcomes : LoginVerify(p, o)
    \/ \E p \in Procs : loginDelayLock(p)
    \/ \E p \in Procs : loginDelay(p)
    \/ \E p \in Procs : LoginLock(p)
    \/ \E p \in Procs : LoginStore(p)
    \/ \E p \in Procs, b \in BOOLEAN : LoginJWT(p, b)
    \/ \E p \in Procs : FatalDelay(p)

SpecThrottle == Init /\ [][NextThrottle]_vars

\* Session traffic alone: every Login passes verification, so loginDelay never
\* runs and s.tries and s.delay stay empty.  loginDelay never touches s.store or
\* s.cleaned.
NextSession ==
    \/ Tick
    \/ \E p \in Procs, e \in Registered : Login(p, e)
    \/ \E p \in Procs : LoginVerify(p, "good")
    \/ \E p \in Procs : LoginLock(p)
    \/ \E p \in Procs : LoginStore(p)
    \/ \E p \in Procs, b \in BOOLEAN : LoginJWT(p, b)
    \/ \E p \in Procs : AlreadyLoggedInNoCookie(p)
    \/ \E p \in Procs, t \in Tokens : AlreadyLoggedInLock(p, t)
    \/ \E p \in Procs : AlreadyLoggedIn(p)
    \/ \E p \in Procs : AlreadyLoggedInRefresh(p)
    \/ \E p \in Procs, t \in Tokens : LogoutLock(p, t)
    \/ \E p \in Procs : Logout(p)
    \/ \E p \in Procs : LogoutSweep(p)
    \/ \E c \in Cleaners : CleanBegin(c)
    \/ \E c \in Cleaners : CleanRange(c)
    \/ \E c \in Cleaners : CleanTest(c)
    \/ \E c \in Cleaners : CleanDone(c)
    \/ FatalStore

SpecSession == Init /\ [][NextSession]_vars

\* Login and Logout of both accounts within the first 30 seconds: the clock is
\* not read again and no Logout starts a sweep.
NextPair ==
    \/ \E p \in Procs, e \in Emails : Login(p, e)
    \/ \E p \in Procs : LoginVerify(p, "good")
    \/ \E p \in Procs : LoginLock(p)
    \/ \E p \in Procs : LoginStore(p)
    \/ \E p \in Procs, b \in BOOLEAN : LoginJWT(p, b)
    \/ \E p \in Procs, t \in Tokens : LogoutLock(p, t)
    \/ \E p \in Procs : Logout(p)
    \/ \E p \in Procs : LogoutSweep(p)

SpecPair == InitUsers /\ [][NextPair]_vars

\* The user handlers within the first 30 seconds; the only Logout is the one a
\* deletion calls.
NextUsers ==
    \/ \E p \in Procs : Logout(p)
    \/ \E p \in Procs : LogoutSweep(p)
    \/ \E p \in Procs, i \in UserIDs, c \in UIDValues \cup {NoCookie}, f \in DeleteFails :
          UsersDelete(p, i, c, f)
    \/ \E p \in Procs : HandlerLogout(p)
    \/ \E p \in Procs, i \in UserIDs, c \in UIDValues \cup {NoCookie}, b \in Bodies, f \in BOOLEAN :
          UsersUpdate(p, i, c, b, f)
    \/ \E p \in Procs, i \in UserIDs, c \in UIDValues \cup {NoCookie}, f \in HandlerDeleteFails :
          HandlerDelete(p, i, c, f)

SpecUsers == InitUsers /\ [][NextUsers]_vars


\* The cart handlers alone: they share nothing with the session registry or
\* the tables.
Brands == {"b1", "b2"}
Categories == {"k1", "k2"}
Types == {"t1", "t2"}
Ranges == {<<"0", "x">>, <<"1", "2">>, <<"-1", "x">>}
NextCart ==
    \/ \E p \in Procs, b \in ProductBodies, d \in BOOLEAN, a \in Amounts : CartAdd(p, b, d, a)
    \/ \E p \in Procs : CartAddTotals(p)
    \/ \E p \in Procs : CartJSON(p)
    \/ \E p \in Procs, k \in PathValues : CartRemove(p, k)
    \/ \E p \in Procs : CartRemoveItem(p)
    \/ \E p \in Procs : CartReset(p)
    \/ \E p \in Procs : CartResetTotals(p)
    \/ \E p \in Procs : CartGet(p)
    \/ \E p \in Procs : CartCheckout(p)
    \/ \E p \in Procs : CartItems(p)
    \/ \E p \in Procs : CartSize(p)
    \/ \E p \in Procs, v \in Brands : CartFilterByBrand(p, v)
    \/ \E p \in Procs, v \in Categories : CartFilterByCategory(p, v)
    \/ \E p \in Procs, v \in Types : CartFilterByType(p, v)
    \/ \E p \in Procs, r \in Ranges : CartFilterByTotal(p, r[1], r[2])
    \/ \E p \in Procs, r \in Ranges : CartFilterByWeight(p, r[1], r[2])
    \/ \E p \in Procs : FatalCart(p)

SpecCart == Init /\ [][NextCart]_vars


\* ---- steps of a Login call, as seen from outside ----
\* a Login for e passes the throttle gate and goes on to the credential check
LoginAdmits(e) ==
    /\ calls' = calls + 1
    /\ \E p \in Procs : pc[p] = "idle" /\ pc'[p] = "verify" /\ arg'[p] = e
\* a Login for e returns "please wait ..." at the gate
LoginRejects(e) ==
    /\ calls' = calls + 1
    /\ pc' = pc
    /\ resp' = Resp("Login", e, "throttled")
\* the backoff of e is running: now is strictly before its stored deadline
Active(e) == e \in DOMAIN delay /\ now < delay[e]
\* failed attempts for e that have not reached the body of loginDelay yet
PendingFailures(e) ==
    Cardinality({q \in Procs : arg[q] = e /\ pc[q] \in {"delayLock", "delayBody"}})
InFlight == {c \in Cleaners : cl[c].pc # "off"}

\* C1: each age test of Clean removes the entry it holds exactly when that entry's
\* lastSeen is more than 120 hours before the time of the test, and leaves every
\* other entry (token, identity, lastSeen) unchanged.
C1_CleanRemovesExactlyExpired ==
    [][\A c \in Cleaners :
         (cl[c].pc = "test" /\ cl'[c].pc = "iter") =>
            \A k \in DOMAIN store :
                IF k = cl[c].key /\ now - store[k].lastSeen > 432000
                THEN k \notin DOMAIN store'
                ELSE k \in DOMAIN store' /\ store'[k] = store[k]]_vars

\* C2: while Clean iterates over the store, no Login, AlreadyLoggedIn or Logout is
\* inside its critical section on the store.
C2_CleanExcludesLockedSections ==
    \A c \in Ranging : \A p \in Procs : ~StoreUser(p)

\* C3: at most one Clean is in flight at any time.
C3_AtMostOneCleanInFlight == Cardinality(InFlight) <= 1

\* a step of goroutine p that reads or writes store, tries, delay or cleaned
AccessesShared(p) ==
    \/ pc[p] \in {"delayBody", "loginBody", "aliBody", "aliWrite", "outBody", "outCheck"}
       /\ pc'[p] # pc[p]
    \/ pc[p] = "idle" /\ pc'[p] = "verify"
    \/ Serves(p) /\ \E e \in Emails : LoginRejects(e)

\* C4: every step of Login, AlreadyLoggedIn and Logout that reads or writes store,
\* tries, delay or cleaned is taken by the holder of the lock.
C4_SharedStateUnderLock ==
    [][~fatal' => \A p \in Procs : AccessesShared(p) => lock = p]_vars

\* C5: after n runs of loginDelay for an identity with no successful login in
\* between, its stored deadline is the time of the n-th run plus 2*n seconds.
C5_LinearBackoff ==
    \A e \in Emails :
        nfail[e] > 0 => e \in DOMAIN delay /\ delay[e] = lastFail[e] + 2 * nfail[e]
C5_Witness ==
    nfail["a@x.com"] = 2 /\ delay["a@x.com"] = lastFail["a@x.com"] + 4

\* C6: a Login is rejected as throttled exactly when now is strictly before the
\* stored deadline of its identity: never with no recorded failure, and always
\* until 2*n seconds have passed since the last of n failures.
C6_ThrottledExactlyBeforeDeadline ==
    [][\A e \in Emails :
         /\ LoginRejects(e) => Active(e) /\ nfail[e] > 0
         /\ LoginAdmits(e) =>
              /\ ~Active(e)
              /\ nfail[e] > 0 => now >= lastFail[e] + 2 * nfail[e]]_vars
C6_Witness ==
    \E e \in Emails :
        /\ resp = Resp("Login", e, "throttled")
        /\ nfail[e] = 2
        /\ now >= lastFail[e] + 2
        /\ now < lastFail[e] + 4

\* C7: once an identity has logged in successfully, it has no failure count and no
\* deadline until its next failed attempt, and that attempt sets a 2-second delay.
C7_SuccessClearsThrottle ==
    \A e \in Emails :
        succ[e] =>
            /\ nfail[e] = 0 => e \notin DOMAIN tries /\ e \notin DOMAIN delay
            /\ nfail[e] = 1 => e \in DOMAIN delay /\ delay[e] = lastFail[e] + 2
C7_Witness ==
    \E e \in Emails :
        succ[e] /\ nfail[e] = 1 /\ TriesLen(tries, e) = 1 /\ delay[e] = lastFail[e] + 2

\* C8: from one recorded failure of an identity to the next, with no successful
\* login in between, the stored deadline never decreases.
C8_DeadlineMonotone ==
    [][\A e \in Emails :
         (nfail[e] > 0 /\ nfail'[e] = nfail[e] + 1 /\ e \in DOMAIN delay) =>
            e \in DOMAIN delay' /\ delay'[e] >= delay[e]]_vars
C8_Witness ==
    \E e \in Emails : nfail[e] = 2 /\ lastFail[e] >= 2 /\ delay[e] >= 6

\* C9: when the failed attempts of an identity that never logged in have all
\* been recorded, the failure count is the number of failed attempts and the
\* deadline is the time of the last recording plus 2 seconds per attempt.
C9_NoLostFailure ==
    \A e \in Emails :
        (~succ[e] /\ PendingFailures(e) = 0) =>
            /\ TriesLen(tries, e) = vfail[e]
            /\ vfail[e] > 0 => e \in DOMAIN delay /\ delay[e] = lastFail[e] + 2 * vfail[e]
\* two failures recorded at the same instant: the second attempt passed the gate
\* before the first was recorded
C9_Witness ==
    \E e \in Emails :
        /\ vfail[e] = 2
        /\ PendingFailures(e) = 0
        /\ TriesLen(tries, e) = 2
        /\ lastFail[e] = 0

\* C10: a Login that arrives while the backoff of its identity is running returns
\* the throttled error at the gate: it does not go on to the credential check and
\* the session store is unchanged.
C10_GateBeforeVerification ==
    [][\A e \in Emails :
         (Active(e) /\ (LoginAdmits(e) \/ LoginRejects(e))) =>
            /\ LoginRejects(e)
            /\ \A p \in Procs : pc'[p] # "verify" \/ pc[p] = "verify"
            /\ store' = store]_vars
C10_Witness ==
    \E e \in Registered :
        /\ resp = Resp("Login", e, "throttled")
        /\ Active(e)
        /\ store = EmptyMap


\* ---- steps on the session store, as seen from outside ----
\* goroutine p runs lines 118, 122-125 of Login
LoginStores(p) == pc[p] = "loginBody" /\ pc'[p] = "jwt"
\* goroutine p finds its token in the store (line 69) and goes on to refresh it
Finds(p) == pc[p] = "aliBody" /\ pc'[p] = "aliWrite"
\* goroutine p does not find its token and AlreadyLoggedIn returns false
FindsNot(p) == pc[p] = "aliBody" /\ pc'[p] = "idle" /\ ~fatal'
\* goroutine p writes the refreshed entry and AlreadyLoggedIn returns true
Refreshes(p) == pc[p] = "aliWrite" /\ pc'[p] = "idle" /\ ~fatal'
\* goroutine p runs delete(s.store, c.Value) of Logout
Destroys(p) == pc[p] = "outBody" /\ pc'[p] = "outCheck"
\* Clean goroutine c runs the age test, and the delete, on the entry its range yielded
Sweeps(c) == cl[c].pc = "test" /\ cl'[c].pc = "iter"
\* the entries of m other than k are the same in n
SameExcept(m, n, k) ==
    /\ (DOMAIN m) \ {k} = (DOMAIN n) \ {k}
    /\ \A x \in (DOMAIN m) \ {k} : n[x] = m[x]

\* C11: the store step of a Login adds exactly one entry: its key was not in
\* the store and was never handed out, it holds the identity that logged in and
\* lastSeen = the time of the step, and every other entry is unchanged.  From
\* then on the entry stays until a Logout of that token or a Clean removes it,
\* and AlreadyLoggedIn answers true for every token that is in the store.
C11_LoginCreatesSession ==
    [][~fatal' =>
         /\ \A p \in Procs : LoginStores(p) =>
              \E k \in Tokens :
                  /\ k \notin DOMAIN store /\ k \notin used
                  /\ DOMAIN store' = DOMAIN store \cup {k}
                  /\ store'[k] = [email |-> arg[p], lastSeen |-> now]
                  /\ SameExcept(store, store', k)
         /\ \A k \in DOMAIN store : k \notin DOMAIN store' =>
              \/ \E p \in Procs : Destroys(p) /\ arg[p] = k
              \/ \E c \in Cleaners : Sweeps(c) /\ cl[c].key = k
         /\ \A p \in Procs :
              /\ (pc[p] = "aliBody" /\ pc'[p] # "aliBody" /\ arg[p] \in DOMAIN store) =>
                    Finds(p)
              /\ Refreshes(p) => resp' = Resp("AlreadyLoggedIn", arg[p], "true")]_vars
\* AlreadyLoggedIn answered true at time 1 for the token of a Login of a@x.com
C11_Witness ==
    /\ resp = Resp("AlreadyLoggedIn", "s1", "true")
    /\ "s1" \in DOMAIN store
    /\ store["s1"].email = "a@x.com"
    /\ succ["a@x.com"]
    /\ now = 1


\* a request without a SID cookie is answered by AlreadyLoggedIn
AnswersNoCookie ==
    calls' = calls + 1 /\ pc' = pc /\ resp' = Resp("AlreadyLoggedIn", "", "false")

\* C12: AlreadyLoggedIn answers true exactly when its lookup finds the presented
\* token as a key of the store; it then writes that entry with lastSeen = the
\* current time and the identity it found, and changes no other entry.  For a
\* token that is not a key, and for a request without a SID cookie, it answers
\* false and the store is unchanged.
C12_AlreadyLoggedInContract ==
    [][/\ \A p \in Procs :
            /\ Finds(p) =>
                 /\ arg[p] \in DOMAIN store
                 /\ user'[p] = store[arg[p]].email
                 /\ store' = store
            /\ FindsNot(p) =>
                 /\ arg[p] \notin DOMAIN store
                 /\ resp' = Resp("AlreadyLoggedIn", arg[p], "false")
                 /\ store' = store
            /\ Refreshes(p) =>
                 /\ resp' = Resp("AlreadyLoggedIn", arg[p], "true")
                 /\ store'[arg[p]] = [email |-> user[p], lastSeen |-> now]
                 /\ arg[p] \in DOMAIN store => store[arg[p]].email = user[p]
                 /\ SameExcept(store, store', arg[p])
       /\ AnswersNoCookie => store' = store]_vars
\* AlreadyLoggedIn wrote an entry at time 2 and answered true
C12_Witness ==
    /\ resp = Resp("AlreadyLoggedIn", "s1", "true")
    /\ "s1" \in DOMAIN store
    /\ store["s1"].lastSeen = 2
    /\ now = 2
    /\ \A p \in Procs : pc[p] = "idle"
    /\ calls = 2


\* C13: Logout is idempotent on the store.  Its delete leaves a store without the
\* token and with every other entry unchanged, so for a token that is not a key
\* the store is unchanged, and the same delete applied again to the result
\* changes nothing; the call then returns, whether or not the token was a key.
C13_LogoutIdempotent ==
    [][\A p \in Procs :
         /\ Destroys(p) =>
              /\ arg[p] \notin DOMAIN store'
              /\ SameExcept(store, store', arg[p])
              /\ arg[p] \notin DOMAIN store => store' = store
              /\ MapDelete(store', arg[p]) = store'
         /\ (pc[p] = "outCheck" /\ pc'[p] = "idle" /\ ~fatal') =>
              resp' = Resp("Logout", arg[p], "done")]_vars
\* a Logout of a token that was never handed out returned, and the entry of
\* another token is in the store
C13_Witness ==
    /\ resp = Resp("Logout", "s2", "done")
    /\ "s2" \notin used
    /\ "s1" \in DOMAIN store
    /\ \A p \in Procs : pc[p] = "idle"


\* C14: per token the only transitions are: absent to present in the store step
\* of a Login; present to present with a new lastSeen, and the same identity, in
\* the write of AlreadyLoggedIn for that token; present to absent in the delete
\* of a Logout of that token, or in a delete of Clean when the entry's lastSeen
\* is more than 120 hours before the current time.
C14_TokenLifecycle ==
    [][~fatal' =>
         \A k \in Tokens :
            /\ (k \notin DOMAIN store /\ k \in DOMAIN store') =>
                  \E p \in Procs : LoginStores(p)
            /\ (k \in DOMAIN store /\ k \notin DOMAIN store') =>
                  \/ \E p \in Procs : Destroys(p) /\ arg[p] = k
                  \/ \E c \in Cleaners :
                        Sweeps(c) /\ cl[c].key = k /\ now - store[k].lastSeen > 432000
            /\ (k \in DOMAIN store /\ k \in DOMAIN store') =>
                  /\ store'[k].email = store[k].email
                  /\ store'[k].lastSeen # store[k].lastSeen =>
                        \E p \in Procs : Refreshes(p) /\ arg[p] = k]_vars


\* C15: sliding expiration.  An entry that has never been idle for more than 120
\* hours (its creation or its last refresh by AlreadyLoggedIn was never more than
\* 120 hours back) is not removed by Clean.
C15_SlidingExpiration ==
    [][\A c \in Cleaners :
         (Sweeps(c) /\ cl[c].key \in DOMAIN store /\ cl[c].key \notin lapsed) =>
            cl[c].key \in DOMAIN store']_vars


\* goroutine p records a failed attempt (loginDelay) and Login returns its error
Fails(p) == pc[p] = "delayBody" /\ pc'[p] = "idle" /\ ~fatal'
\* the throttle state of every identity other than e is the same in the next state
OthersThrottleSame(e) ==
    \A f \in Emails \ {e} :
        /\ TriesLen(tries', f) = TriesLen(tries, f)
        /\ f \in DOMAIN delay' <=> f \in DOMAIN delay
        /\ f \in DOMAIN delay => delay'[f] = delay[f]

\* C16: a Login that fails because the identity is unknown (the SELECT finds no
\* row) and one that fails because the secret is wrong have the same outcome, a
\* function of the submitted identity alone: the error "invalid email or
\* password", one more recorded failure and the matching deadline for that
\* identity, nothing changed for any other identity, and the session store
\* unchanged.
C16_UniformFailure ==
    [][\A p \in Procs :
         (Fails(p) /\ err[p] \in {"norow", "badpw"}) =>
            /\ resp' = Resp("Login", arg[p], "invalid")
            /\ TriesLen(tries', arg[p]) = TriesLen(tries, arg[p]) + 1
            /\ arg[p] \in DOMAIN delay'
            /\ delay'[arg[p]] = now + 2 * TriesLen(tries', arg[p])
            /\ OthersThrottleSame(arg[p])
            /\ store' = store]_vars
\* a Login of the unknown identity has failed, after one of the known identity
\* failed: both have one recorded failure and there is no session
C16_Witness ==
    /\ cause = "norow"
    /\ resp = Resp("Login", "b@x.com", "invalid")
    /\ TriesLen(tries, "b@x.com") = 1
    /\ TriesLen(tries, "a@x.com") = 1
    /\ vfail["a@x.com"] = 1
    /\ store = EmptyMap


\* goroutine p returns from Login after token.GenerateFixedJWT
Signs(p) == pc[p] = "jwt" /\ pc'[p] = "idle" /\ ~fatal'

\* C17: a Login whose credential store failed (an error of the SELECT other than
\* "no row"), or whose authorization token could not be signed, returns the
\* internal error, not "invalid email or password", and the failure count and
\* deadline of its identity are unchanged.
C17_CollaboratorFailure ==
    [][\A p \in Procs :
         /\ (Fails(p) /\ err[p] = "dberr") =>
              /\ resp' = Resp("Login", arg[p], "internal")
              /\ TriesLen(tries', arg[p]) = TriesLen(tries, arg[p])
              /\ delay' = delay
         /\ (Signs(p) /\ resp'.ret # "ok") =>
              /\ resp' = Resp("Login", arg[p], "internal")
              /\ tries' = tries
              /\ delay' = delay]_vars


\* C20: one identity may hold several tokens.  The store step of a Login leaves
\* every entry that was in the store unchanged, those of the same identity
\* included, and adds one; the delete of a Logout leaves every entry other than
\* that of its token unchanged.
C20_SessionsIndependent ==
    [][\A p \in Procs :
         /\ LoginStores(p) =>
              /\ \A k \in DOMAIN store : k \in DOMAIN store' /\ store'[k] = store[k]
              /\ Cardinality(DOMAIN store') = Cardinality(DOMAIN store) + 1
              /\ Cardinality({k \in DOMAIN store' : store'[k].email = arg[p]}) =
                   Cardinality({k \in DOMAIN store : store[k].email = arg[p]}) + 1
         /\ Destroys(p) =>
              /\ \A k \in (DOMAIN store) \ {arg[p]} :
                    k \in DOMAIN store' /\ store'[k] = store[k]
              /\ DOMAIN store' \subseteq DOMAIN store]_vars
\* a@x.com logged in twice; the Logout of its first token has returned and the
\* entry of its second token is in the store
C20_Witness ==
    /\ resp = Resp("Logout", "s1", "done")
    /\ used = {"s1", "s2"}
    /\ succ["a@x.com"] /\ ~succ["b@x.com"]
    /\ DOMAIN store = {"s2"}
    /\ store["s2"].email = "a@x.com"


\* ---- requests to the user handlers, as seen from outside ----
HandlerOps == {"Users.Delete", "Users.Update", "Handler.Delete"}
\* the account ids whose authorization token is c: one id, or none when c is
\* malformed or missing
Bound(c) == {i \in UserIDs : GenerateFixedJWT(i) = c}
\* a request for account i with UID cookie c ends in this step with a response
\* other than the 200 of a deletion
Answered(i, c) ==
    /\ calls' = calls + 1
    /\ pc' = pc
    /\ resp'.op \in HandlerOps /\ resp'.arg = i /\ resp'.by = c
\* a deletion of account i requested with UID cookie c has passed every check and
\* removed the account; the handler goes on to s.Logout
Proceeds(i, c) ==
    \E p \in Procs : req[p] = NoReq /\ req'[p] # NoReq /\ req'[p].id = i /\ req'[p].uid = c
SessionSame == store' = store /\ cleaned' = cleaned /\ tries' = tries /\ delay' = delay

\* C18: the users and carts tables change, and a handler answers 200, only in a
\* Delete or Update request whose UID cookie is the authorization token of the
\* targeted account; a request whose token is that of another account is answered
\* 401 and changes no user, no cart and nothing of the session registry.
C18_OwnerOnly ==
    [][/\ (users' # users \/ carts' # carts) =>
            \E i \in UserIDs, c \in UIDValues :
                (Answered(i, c) \/ Proceeds(i, c)) /\ Bound(c) = {i}
       /\ \A i \in UserIDs, c \in UIDValues :
            /\ (Answered(i, c) /\ resp'.ret = "200") => Bound(c) = {i}
            /\ Proceeds(i, c) => Bound(c) = {i}
            /\ ((Answered(i, c) \/ Proceeds(i, c)) /\ Bound(c) \notin {{}, {i}}) =>
                  /\ Answered(i, c)
                  /\ resp'.ret = "401"
                  /\ users' = users /\ carts' = carts
                  /\ SessionSame]_vars
\* a deletion of u1 under the token of u2 was answered 401 while a@x.com (u1) is
\* logged in: the account, its cart and its session are there
C18_Witness ==
    /\ resp = Responds("Users.Delete", "u1", "jwt.u2", "401")
    /\ users = UserRow
    /\ carts = CartIDs
    /\ "s1" \in DOMAIN store
    /\ store["s1"].email = "a@x.com"


\* C19: a Delete or Update request with no UID cookie, or with a malformed one,
\* is answered with the authorization failure (401): the handler does not panic,
\* does not go on to the operation, and changes no user, no cart and nothing of
\* the session registry.
C19_NoTokenRejected ==
    [][\A i \in UserIDs, c \in {NoCookie, "garbage"} :
         /\ ~Proceeds(i, c)
         /\ Answered(i, c) =>
              /\ resp'.ret = "401"
              /\ users' = users /\ carts' = carts
              /\ SessionSame]_vars

\* ---- the cart ----
RECURSIVE SumOver(_, _, _)
\* the sum of a field over the items with the given ids
SumOver(c, f, ids) ==
    IF ids = {} THEN 0
    ELSE LET id == CHOOSE x \in ids : TRUE IN c.items[id][f] + SumOver(c, f, ids \ {id})
\* every aggregate is the sum of its field over the items
SumInvariant(c) == \A f \in Aggregates : c[f] = SumOver(c, f, DOMAIN c.items)
\* the last cart response is of this handler, with these statuses
Wrote(o, st) == out.op = o /\ out.status = st

\* C21: whenever no add, remove or reset is in flight on the cart, each aggregate
\* (weight, discount, tax, subtotal, total) equals the sum of that field over
\* the items in the cart.
C21_AggregatesAreSums == cartLock = 0 => SumInvariant(cart)
C21_Witness ==
    /\ cartLock = 0
    /\ Wrote("CartAdd", <<"200">>)
    /\ out.body.cart = cart
    /\ DOMAIN cart.items = ProductIDs
    /\ \E id \in DOMAIN cart.items : cart.items[id].quantity > 1

\* the quantities a CartAdd request can carry through to cart.Add
Accepted == {Atoi(a).n : a \in Amounts} \ {0}

\* C22: for every product p and non-zero quantities q1 and q2 that the handler
\* accepts, add(p, q1) followed by add(p, q2) leaves the cart as a single
\* add(p, q1 + q2) does: the same aggregates and the same single entry for p.
C22_AddsCompose ==
    cartLock = 0 =>
        \A b \in ProductBodies : \A q1 \in Accepted, q2 \in Accepted :
            Add(Add(cart, b, q1).cart, b, q2).cart = Add(cart, b, q1 + q2).cart

\* C23: once every item has been removed and no operation is in flight, the cart
\* is as a reset leaves it: no items, item counter 0 and every aggregate 0.
C23_RemovedAllIsReset ==
    (cartLock = 0 /\ DOMAIN cart.items = {}) => cart = Reset(NewCart) /\ Size(cart) = 0
C23_Witness ==
    /\ cartLock = 0
    /\ Wrote("CartRemove", <<"200">>)
    /\ DOMAIN cart.items = {}
    /\ DOMAIN out.body.cart.items = {}
    /\ calls = MaxCalls

\* C24: in every reachable cart the quantity of every item is non-negative.
C24_QuantitiesNonNegative ==
    \A id \in DOMAIN cart.items : cart.items[id].quantity >= 0

\* C25: a CartAdd whose quantity is zero answers with the error of the invalid
\* quantity and leaves the cart (items, counter, aggregates) as it was.
C25_ZeroQuantityRejected ==
    [][\A p \in Procs, b \in ProductBodies, a \in Amounts :
          (Atoi(a).n = 0 /\ CartAdd(p, b, TRUE, a)) =>
              /\ cart' = cart
              /\ cartLock' = cartLock
              /\ pc' = pc
              /\ out'.op = "CartAdd"
              /\ out'.status[Len(out'.status)] = "400"]_vars
C25_Witness ==
    /\ out.op = "CartAdd"
    /\ out.arg = "0"
    /\ out.status = <<"400">>
    /\ cart.items # EmptyMap
    /\ cartLock = 0

\* C26: a CartRemove of a product that is not in the cart gets the error of
\* cart.Remove and leaves the cart as it was; a CartRemove of a product that is
\* in the cart subtracts exactly that item's fields from the aggregates (and one
\* from the counter) and then deletes its entry, and nothing else.
C26_RemoveContract ==
    [][\A p \in Procs :
          /\ \A k \in DOMAIN Numerals :
                CartRemove(p, k) =>
                    IF Numerals[k] \notin DOMAIN cart.items
                    THEN cart' = cart /\ creq'[p].status = <<"400">>
                    ELSE /\ cart'.items = cart.items
                         /\ cart'.counter = cart.counter - 1
                         /\ \A f \in Aggregates : cart'[f] = cart[f] - cart.items[Numerals[k]][f]
                         /\ creq'[p].status = <<>>
                         /\ creq'[p].key = Numerals[k]
          /\ CartRemoveItem(p) =>
                /\ cart'.items = MapDelete(cart.items, creq[p].key)
                /\ cart'.counter = cart.counter
                /\ \A f \in Aggregates : cart'[f] = cart[f]]_vars
C26_Witness ==
    /\ out.op = "CartRemove"
    /\ out.arg = "-1"
    /\ out.status = <<"400", "200">>
    /\ out.body.cart = cart
    /\ DOMAIN cart.items = ProductIDs

\* the handlers that only read the cart
Reads == {"CartCheckout", "CartItems", "CartSize", "CartGet", "CartFilterByBrand",
          "CartFilterByCategory", "CartFilterByType", "CartFilterByTotal",
          "CartFilterByWeight"}
\* a reading handler answers
Read(o) == calls' = calls + 1 /\ out'.op = o /\ pc' = pc /\ ~fatal'

\* C27: a step of checkout, size, items, get or a filter leaves the cart's items,
\* item counter and aggregates as they were; after a checkout the cart still
\* holds what the checkout returned.
C27_ReadsLeaveCart ==
    [][\A o \in Reads : Read(o) =>
          /\ cart' = cart
          /\ (o = "CartCheckout" => out'.body.cart = cart')]_vars
C27_Witness ==
    /\ Wrote("CartCheckout", <<"200">>)
    /\ out.body.cart = cart
    /\ Cardinality(DOMAIN cart.items) = 2

\* the goroutines inside cart.Add, cart.Remove or cart.Reset
Mutating == {p \in Procs : pc[p] \in {"addTotals", "removeItem", "resetTotals"}}

\* C28: at most one add, remove or reset is inside the cart at a time, and the
\* cart a response carries (read by a filter, size, checkout or the encoder of a
\* handler) satisfies the sum invariant: no reader sees a half-applied update.
C28_ReadersSeeNoPartialUpdate ==
    /\ Cardinality(Mutating) <= 1
    /\ SumInvariant(out.body.cart)

\* C29: a step that deletes an account deletes the cart whose id is the cart id
\* stored in that account's row, and no other cart.
C29_DeletionTakesOwnCart ==
    [][\A i \in DOMAIN users :
          i \notin DOMAIN users' => carts' = carts \ {users[i].cart}]_vars

\* C30: a Login that returns an error has added no entry to the store and has not
\* cleared the throttle state of its identity.  The call rejected at the gate
\* changes nothing; the call that fails verification leaves the store alone and
\* its identity keeps a failure count and a deadline; and the call that has run
\* the store step (which adds the entry and deletes the identity's tries and
\* delay) does not return an error.
C30_FailedLoginLeavesNoSession ==
    [][\A p \in Procs :
         /\ \A e \in Emails : (Serves(p) /\ LoginRejects(e)) =>
                store' = store /\ tries' = tries /\ delay' = delay
         /\ Fails(p) =>
                /\ store' = store
                /\ arg[p] \in DOMAIN tries' /\ arg[p] \in DOMAIN delay'
         /\ Signs(p) => resp'.ret = "ok"]_vars

\* ---- expiry, as the callers of the registry see it ----
\* C31: an entry whose lastSeen is more than 120 hours back is not found by the
\* lookup of AlreadyLoggedIn (it is not reported active), and the write of
\* AlreadyLoggedIn does not give such an entry a fresh lastSeen, whether or not
\* Clean has run since it expired.
C31_ExpiredNeverActive ==
    [][\A p \in Procs :
         /\ Finds(p) => ~Expired(store[arg[p]].lastSeen, now)
         /\ (Refreshes(p) /\ arg[p] \in DOMAIN store) =>
                ~Expired(store[arg[p]].lastSeen, now)]_vars

\* a deletion handler run by goroutine p answers 200, after its call of s.Logout
Deleted(p) ==
    /\ pc[p] = "outCheck" /\ pc'[p] = "idle" /\ ~fatal'
    /\ req[p].op \in {"Users.Delete", "Handler.Delete"}

\* C32: when a deletion handler answers 200, the entry of the session token (SID
\* cookie) of its request is not in the store.
C32_DeleteLogsOut ==
    [][\A p \in Procs : Deleted(p) => req[p].sid \notin DOMAIN store']_vars

\* ---- the throttle under concurrent logins ----
\* lines 96-105 run by goroutine p: the credentials of arg[p] are verified
Verifies(p) == pc[p] = "verify" /\ pc'[p] \in {"loginLock", "delayLock"} /\ ~fatal'

\* C33: no verification of the credentials of an identity happens strictly after
\* the time of its last recorded failure and before the deadline that failure set.
C33_NoVerificationInWindow ==
    [][\A p \in Procs :
         Verifies(p) => ~(Active(arg[p]) /\ lastFail[arg[p]] < now)]_vars

\* C34: a Login rejected at the gate leaves the tries map, the delay map and the
\* session store as they were, so the deadline it announced still opens the gate:
\* at that deadline the identity is not throttled.
C34_ThrottledChangesNothing ==
    [][\A e \in Emails :
         LoginRejects(e) =>
            /\ tries' = tries /\ delay' = delay /\ store' = store
            /\ ~Throttled(delay', e, delay[e])]_vars
C34_Witness ==
    \E e \in Emails :
        /\ resp = Resp("Login", e, "throttled")
        /\ Active(e)
        /\ \E f \in Emails \ {e} : f \in DOMAIN delay /\ f \in DOMAIN tries

\* no call of the registry is running and no Clean goroutine is alive
Quiet == lock = 0 /\ InFlight = {} /\ \A p \in Procs : pc[p] = "idle"

\* C35: when no operation of the registry is in flight, tries and delay have the
\* same keys, and every key of tries holds at least one recorded failure.
C35_SameKeys ==
    Quiet => /\ DOMAIN tries = DOMAIN delay
             /\ \A e \in DOMAIN delay : TriesLen(tries, e) > 0
C35_Witness ==
    \E e \in Registered :
        /\ Quiet
        /\ lastFail[e] > 0 /\ succ[e]
        /\ e \notin DOMAIN delay
        /\ DOMAIN delay # {}

\* ---- progress of the sweep ----
\* a step of a Clean goroutine that has been started
CleanStep ==
    \E c \in Cleaners : CleanBegin(c) \/ CleanRange(c) \/ CleanTest(c) \/ CleanDone(c)
\* a step of a call of the registry that has passed its first line
CallStep ==
    \E p \in Procs :
        \/ LoginVerify(p, "good") \/ LoginLock(p) \/ LoginStore(p)
        \/ \E b \in BOOLEAN : LoginJWT(p, b)
        \/ AlreadyLoggedIn(p) \/ AlreadyLoggedInRefresh(p)
        \/ Logout(p) \/ LogoutSweep(p)

\* The session calls under the scheduling the Go runtime gives: the clock advances,
\* a started Clean goroutine and a started call keep running. No request is ever
\* required to arrive.
SpecSweep ==
    /\ Init /\ [][NextSession]_vars
    /\ WF_vars(Tick) /\ WF_vars(CleanStep) /\ WF_vars(CallStep)

\* C36: an entry of the store whose lastSeen is more than 120 hours back is
\* eventually out of the store (or has been refreshed and is idle no longer).
C36_ExpiredEventuallyRemoved ==
    \A k \in Tokens :
        (k \in DOMAIN store /\ Expired(store[k].lastSeen, now))
            ~> (k \notin DOMAIN store \/ ~Expired(store[k].lastSeen, now))

\* ---- the user cache (handler.go 115-134, 221-251) ----
\* Served(i, u): GetByID answers 200 with user u
Served(i, u) == [Resp("Handler.GetByID", i, "200") EXCEPT !.body = u]

\* Handler.GetByID: a hit of h.Cache is answered from the cache (lines 120-123);
\* otherwise the row h.Service.GetByID returns is stored in the cache and answered
\* (125-132); fail is an error of h.Service.GetByID on a row that exists
HandlerGetByID(p, i, fail) ==
    /\ ~fatal
    /\ Serves(p)
    /\ calls < MaxCalls
    /\ calls' = calls + 1
    /\ fail => i \in DOMAIN users /\ i \notin DOMAIN cache
    /\ IF i \in DOMAIN cache
       THEN /\ resp' = Served(i, cache[i])
            /\ cache' = cache
       ELSE IF i \notin DOMAIN users \/ fail
       THEN /\ resp' = Resp("Handler.GetByID", i, "500")
            /\ cache' = cache
       ELSE /\ resp' = Served(i, users[i])
            /\ cache' = MapPut(cache, i, users[i])
    /\ UNCHANGED <<now, store, cleaned, tries, delay, lock, pc, arg, err, user, cl, used, fatal>>
    /\ UNCHANGED <<users, carts, req>>
    /\ UNCHANGED histVars
    /\ UNCHANGED cartVars

\* Handler.Update: token.CheckPermits (226-229), the decoding and validation of
\* the body (231-240), h.Service.Update (242-245); h.Cache is not touched
HandlerUpdateStatus(i, c, nilptr, body, fail) ==
    IF c = NoCookie /\ nilptr THEN "panic"
    ELSE IF CheckPermits(i, c) THEN "401"
    ELSE IF body = "" THEN "400"
    ELSE IF i \notin DOMAIN users \/ fail THEN "500"
    ELSE "200"

HandlerUpdate(p, i, c, body, fail) ==
    /\ ~fatal
    /\ Serves(p)
    /\ calls < MaxCalls
    /\ calls' = calls + 1
    /\ \E nilptr \in IF c = NoCookie THEN BOOLEAN ELSE {FALSE} :
        LET st == HandlerUpdateStatus(i, c, nilptr, body, fail) IN
        /\ fail => st = "500" /\ i \in DOMAIN users
        /\ users' = IF st = "200" THEN UpdateUser(users, i, body) ELSE users
        /\ resp' = Responds("Handler.Update", i, c, st)
    /\ UNCHANGED <<now, store, cleaned, tries, delay, lock, pc, arg, err, user, cl, used, fatal>>
    /\ UNCHANGED <<carts, req, cache>>
    /\ UNCHANGED histVars
    /\ UNCHANGED cartVars

\* the handlers of pkg/user that read or change a user row, and the Logout that
\* Handler.Delete ends with
NextCache ==
    \/ \E p \in Procs, i \in UserIDs, f \in BOOLEAN : HandlerGetByID(p, i, f)
    \/ \E p \in Procs, i \in UserIDs, c \in UIDValues \cup {NoCookie}, b \in Bodies, f \in BOOLEAN :
          HandlerUpdate(p, i, c, b, f)
    \/ \E p \in Procs, i \in UserIDs, c \in UIDValues \cup {NoCookie}, f \in HandlerDeleteFails :
          HandlerDelete(p, i, c, f)
    \/ \E p \in Procs : HandlerLogout(p)
    \/ \E p \in Procs : Logout(p)
    \/ \E p \in Procs : LogoutSweep(p)

SpecCache == InitUsers /\ [][NextCache]_vars

\* C37: a GetByID that answers 200 answers with the row of the user as it is in
\* the database at that time: never with a row that a completed Update has
\* replaced or a completed Delete has removed.
C37_CacheNeverStale ==
    [][(resp'.op = "Handler.GetByID" /\ resp'.ret = "200" /\ calls' = calls + 1) =>
          /\ resp'.arg \in DOMAIN users
          /\ resp'.body = users[resp'.arg]]_vars

\* ---- deletion of a user, when a step fails ----
\* a deletion handler answers with an error status, without reaching s.Logout
DeleteRefused ==
    /\ calls' = calls + 1 /\ pc' = pc
    /\ resp'.op \in {"Users.Delete", "Handler.Delete"}
    /\ resp'.ret \in {"401", "404", "500"}

\* C38: a deletion handler that answers with an error has removed no user row, no
\* cart and no session entry.
C38_DeleteAllOrNothing ==
    [][DeleteRefused => users' = users /\ carts' = carts /\ store' = store]_vars

\* ---- what a cart handler writes ----
\* C39: a cart handler that has returned wrote exactly one response: one status
\* with its body, so an error is never followed by a second error or by the
\* success response.
C39_OneResponse == out.op # "" => Len(out.status) = 1
====
